---------------------------- MODULE Spec2Model ----------------------------
(***************************************************************************)
(* ModelZoo: the multi-protocol proxy (proxy.py), the model registry       *)
(* (zk.py), the protocol table (protocols.py) and the process supervisor   *)
(* RunningModel (base.py).                                                 *)
(*                                                                         *)
(* main.py serves the application with gevent (monkey.patch_all before the *)
(* imports), so a handler runs without interruption between two blocking   *)
(* calls (network I/O, sleep, Popen.wait, Thread.join).  One action of     *)
(* this module is the code between two such calls.                         *)
(***************************************************************************)
EXTENDS Integers, Sequences, FiniteSets, TLC

(***************************************************************************)
(* Bounds of the model.                                                    *)
(***************************************************************************)
NumRequests == 3        \* concurrent proxied requests (scenario S2 uses three)
NumCallers == 2         \* concurrent callers of RunningModel.stop
MaxStops == 3           \* stop() calls per run

None == "None"          \* Python's None

(***************************************************************************)
(* protocols.py: the PROTOCOLS table.  The second 'openai' key of the      *)
(* dict literal replaces the first; the endpoint paths are the same.       *)
(***************************************************************************)
EndpointTypes == {"completions", "chat_completions", "txt2img", "img2img"}

ImageEndpoints == {"txt2img", "img2img"}

PROTOCOLS ==
  [ p \in {"dall-e", "openai", "a1111", "sd-server"} |->
      CASE p = "dall-e" ->
             [ health_check |-> "/v1/models", health_status |-> 200,
               completions |-> None, chat_completions |-> None,
               txt2img |-> "/v1/images/generations", img2img |-> None,
               txt2img_request_adapter |-> "dalle_txt2img_request_adapter",
               txt2img_response_adapter |-> "dalle_txt2img_response_adapter",
               image_sampler_map |-> [ s \in {"Euler", "Euler A"} |->
                   IF s = "Euler" THEN "natural" ELSE "vivid" ] ]
        [] p = "openai" ->
             [ health_check |-> "/v1/models", health_status |-> 200,
               completions |-> "/v1/completions",
               chat_completions |-> "/v1/chat/completions",
               txt2img |-> None, img2img |-> None ]
        [] p = "a1111" ->
             [ health_check |-> "/sdapi/v1/sd-models", health_status |-> 200,
               completions |-> None, chat_completions |-> None,
               txt2img |-> "/sdapi/v1/txt2img", img2img |-> "/sdapi/v1/img2img",
               image_sampler_map |-> [ s \in {"Euler", "Euler A", "Heun", "DPM2", "DPM++", "LCM"} |->
                   CASE s = "Euler" -> "k_euler" [] s = "Euler A" -> "k_euler_a"
                     [] s = "Heun" -> "k_heun" [] s = "DPM2" -> "k_dpm_2"
                     [] s = "DPM++" -> "k_dpmpp_2m" [] s = "LCM" -> "k_lcm" ] ]
        [] p = "sd-server" ->
             [ health_check |-> "/", health_status |-> 404,
               completions |-> None, chat_completions |-> None,
               txt2img |-> "/txt2img", img2img |-> None,
               txt2img_request_adapter |-> "sd_server_txt2img_request_adapter",
               txt2img_response_adapter |-> "sd_server_txt2img_response_adapter",
               image_sampler_map |-> [ s \in {"Euler", "Euler A", "Heun", "DPM2", "DPM++", "LCM"} |->
                   CASE s = "Euler" -> "euler" [] s = "Euler A" -> "euler_a"
                     [] s = "Heun" -> "heun" [] s = "DPM2" -> "dpm2"
                     [] s = "DPM++" -> "dpm++2m" [] s = "LCM" -> "lcm" ] ] ]

\* PROTOCOLS[protocol].get(key): None when the protocol does not define key.
ProtocolGet(protocol, key) ==
  IF key \in DOMAIN PROTOCOLS[protocol] THEN PROTOCOLS[protocol][key] ELSE None

\* Mutant of Truthy: only a missing field counts as unspecified.
TruthyNotNone(v) == v # None

\* Python truthiness of a string-or-None value (`not requested_model`).
Truthy(v) == v # None /\ v # ""

\* d.get(k): None when the key is absent.
Get(d, k) == IF k \in DOMAIN d THEN d[k] ELSE None

\* dict d with d[k] = v (inserting the key when absent).
Put(d, k, v) == [ x \in DOMAIN d \cup {k} |-> IF x = k THEN v ELSE d[x] ]

\* dict d without key k.
Del(d, k) == [ x \in DOMAIN d \ {k} |-> d[x] ]

(***************************************************************************)
(* State.                                                                  *)
(***************************************************************************)
VARIABLES
  catalog,             \* zoo.py: the Model objects a zoo's catalog() returns, by object id
  rm,                  \* base.py: the RunningModel objects, by object id
  running_models,      \* zk.py: ZooKeeper.running_models, a list of RunningModel objects
  peers,               \* zk.py: ZooKeeper.peers, the configured peer list
  peer_models,         \* what each peer's /api/running_models currently answers
  active_connections,  \* proxy.py: ProxyServer.active_connections (defaultdict(int))
  req,                 \* the proxied requests, each with its handler's position and locals
  menu,                \* the requests clients send in this run
  os,                  \* the operating system's view of each RunningModel's process group
  signals,             \* the os.killpg calls made so far, in order
  calls,               \* the stop() calls made so far, in order
  stopper,             \* the callers of stop(), each with its position inside the call
  status_call,         \* base.py: the status() call in progress, with its locals
  last_status,         \* what the last status() call returned, and what it saw
  environment_set,     \* base.py: EnvironmentSet.environments, a list of Environment objects
  extra_environment,   \* base.py: RunningModel.extra_environment, the driver's overrides
  environ,             \* os.environ of the control plane
  child_env,           \* the env each RunningModel's Popen was given
  env_name,            \* what the last get_combined_name() call returned
  log_buffer,          \* base.py: RunningModel.log_buffer (deque(maxlen=100)), by object id
  lines_read,          \* how many lines _collect_logs has read from each child
  handler,             \* main.py: signal_handler's position, and the list it found
  http_server,         \* main.py: the WSGIServer, "serving" or "stopped"
  model_history,       \* zk.py: ModelHistory.model_info, by (zoo_name, model_name)
  launch,              \* the /api/model/launch calls so far: request, response, what spawn did
  registry_call,       \* what the last get_available_models call was given and returned
  stop_model           \* zk.py: the handle_stop_model calls in progress, and their pops so far

registryVars == << catalog, rm, running_models, peers, peer_models >>

proxyVars == << active_connections, req, menu >>

supervisorVars == << os, signals, calls, stopper >>

statusVars == << status_call, last_status >>

\* The state of the control plane outside the proxy and RunningModel.stop.
environmentVars == << environment_set, extra_environment, environ, child_env, env_name >>

\* The part of it a launch leaves alone.
environmentSetVars == << environment_set, extra_environment, environ, env_name >>

logVars == << log_buffer, lines_read >>

shutdownVars == << handler, http_server >>

launchVars == << model_history, launch >>

dashboardVars == << registry_call, stop_model >>

controlVars == << statusVars, environmentVars, logVars, shutdownVars, launchVars, dashboardVars >>

vars == << catalog, rm, running_models, peers, peer_models, active_connections, req, menu,
           os, signals, calls, stopper, controlVars >>

\* The clients of this run.
RequestIds == DOMAIN req

(***************************************************************************)
(* zk.py: get_available_models.  `up` is the set of peers (by position in  *)
(* the peer list) whose fetch and parse succeed during this call; every    *)
(* other peer raises inside the try and contributes nothing.               *)
(***************************************************************************)
RECURSIVE Concat(_)
Concat(ss) == IF ss = << >> THEN << >> ELSE Head(ss) \o Concat(Tail(ss))

LocalEntry(id) ==
  [ model_name |-> catalog[rm[id].model].model_name,
    model_id   |-> catalog[rm[id].model].model_id,
    listener   |-> [ protocol |-> rm[id].listener.protocol,
                     host     |-> "127.0.0.1",
                     port     |-> rm[id].listener.port ],
    source     |-> << "local" >> ]

\* Mutant of RemoteEntry: the entry keeps the host its peer reported.
RemoteEntrySourceOnly(peer, m) == [ m EXCEPT !.source = << "remote", peer.host >> ]

RemoteEntry(peer, m) ==
  [ m EXCEPT !.listener.host = peer.host, !.source = << "remote", peer.host >> ]

\* lines 342-343 succeed on an element that is a dict with a 'listener' dict.
WellFormed(m) == "listener" \in DOMAIN m

\* The loop of lines 341-344 appends element after element and is left by the
\* exception the first malformed element raises: what was appended stays.
RECURSIVE AppendedBeforeError(_)
AppendedBeforeError(models) ==
  IF models = << >> \/ ~ WellFormed(Head(models)) THEN << >>
  ELSE << Head(models) >> \o AppendedBeforeError(Tail(models))

PeerEntries(i, up) ==
  IF i \in up
    THEN [ k \in 1 .. Len(AppendedBeforeError(peer_models[i])) |->
             RemoteEntry(peers[i], peer_models[i][k]) ]
    ELSE << >>

get_available_models(local_models, remote_models, up) ==
  (IF local_models
     THEN [ k \in 1 .. Len(running_models) |-> LocalEntry(running_models[k]) ]
     ELSE << >>)
  \o
  (IF remote_models
     THEN Concat([ i \in 1 .. Len(peers) |-> PeerEntries(i, up) ])
     ELSE << >>)

(***************************************************************************)
(* proxy.py: _handle_request, lines 134-157: the candidate instances.      *)
(***************************************************************************)
Url(host, port, endpoint) == << "http", host, port, endpoint >>

\* line 143: PROTOCOLS.get(protocol, {})[endpoint_type] raises KeyError when the
\* protocol is not a key of PROTOCOLS (the default {} has no endpoint key).
LookupRaises(available_models, requested_model) ==
  \E k \in 1 .. Len(available_models) :
     /\ available_models[k].model_name = requested_model
     /\ available_models[k].listener.protocol \notin DOMAIN PROTOCOLS

\* Mutant of IsCandidate: any instance of that name behind a known protocol.
IsNamed(model, requested_model, endpoint_type) ==
  /\ model.model_name = requested_model
  /\ model.listener.protocol \in DOMAIN PROTOCOLS

IsCandidate(model, requested_model, endpoint_type) ==
  /\ model.model_name = requested_model
  /\ model.listener.protocol \in DOMAIN PROTOCOLS
  /\ PROTOCOLS[model.listener.protocol][endpoint_type] # None

Instance(model, endpoint_type) ==
  [ model_name |-> model.model_name,
    model_id   |-> model.model_id,
    protocol   |-> model.listener.protocol,
    url        |-> Url(model.listener.host, model.listener.port,
                       PROTOCOLS[model.listener.protocol][endpoint_type]) ]

RECURSIVE ModelInstances(_, _, _)
ModelInstances(available_models, requested_model, endpoint_type) ==
  IF available_models = << >> THEN << >>
  ELSE (IF IsCandidate(Head(available_models), requested_model, endpoint_type)
          THEN << Instance(Head(available_models), endpoint_type) >>
          ELSE << >>)
       \o ModelInstances(Tail(available_models), requested_model, endpoint_type)

(***************************************************************************)
(* proxy.py: lines 160-163.  defaultdict(int): reading a missing key       *)
(* inserts it with 0.  min() returns the first minimal element.            *)
(***************************************************************************)
Count(conns, url) == IF url \in DOMAIN conns THEN conns[url] ELSE 0

Touch(conns, urls) == [ u \in DOMAIN conns \cup urls |-> Count(conns, u) ]

\* Mutant of SelectLeast: the first candidate, whatever the counters say.
SelectFirst(model_instances, conns) == 1

SelectLeast(model_instances, conns) ==
  CHOOSE i \in 1 .. Len(model_instances) :
    /\ \A j \in 1 .. Len(model_instances) :
         Count(conns, model_instances[i].url) <= Count(conns, model_instances[j].url)
    /\ \A j \in 1 .. (i - 1) :
         Count(conns, model_instances[j].url) > Count(conns, model_instances[i].url)

\* Mutant of Increment: the counter is bumped twice.
IncrementTwice(conns, url) == [ conns EXCEPT ![url] = @ + 2 ]

Increment(conns, url) == [ conns EXCEPT ![url] = @ + 1 ]

\* Mutant of Decrement: the counter is left as it is.
DecrementForgotten(conns, url) == conns

Decrement(conns, url) == [ conns EXCEPT ![url] = @ - 1 ]

(***************************************************************************)
(* protocols.py: the request adapters, and how proxy.py calls them.        *)
(***************************************************************************)
sd_server_txt2img_request_adapter(data, target_url) ==
  LET d1 == IF "model" \in DOMAIN data THEN Del(data, "model") ELSE data
      d2 == IF "sampler_name" \in DOMAIN d1
              THEN Put(Del(d1, "sampler_name"), "sample_method", d1["sampler_name"])
              ELSE d1
      d3 == IF "steps" \in DOMAIN d2
              THEN Put(Del(d2, "steps"), "sample_steps", d2["steps"])
              ELSE d2
  IN  d3

dalle_txt2img_request_adapter(data, target_url) ==
  LET a0 == [ prompt |-> data["prompt"], response_format |-> "b64_json" ]
      a1 == IF "batch_count" \in DOMAIN data THEN Put(a0, "n", data["batch_count"]) ELSE a0
      a2 == IF "steps" \in DOMAIN data
              THEN Put(a1, "quality", IF data["steps"] > 1 THEN "hd" ELSE "standard")
              ELSE a1
      a3 == IF "width" \in DOMAIN data /\ "height" \in DOMAIN data
              THEN Put(a2, "size", << data["width"], "x", data["height"] >>)
              ELSE a2
      a4 == IF "sampler_name" \in DOMAIN data THEN Put(a3, "style", data["sampler_name"]) ELSE a3
  IN  a4

\* Every adapter of protocols.py is declared with two positional parameters,
\* (data, target_url) or (response_data, target_url).
AdapterParameters == 2

\* proxy.py:184 and proxy.py:215 call the adapter with the payload alone.
AdapterCallArguments == 1

\* Calling a Python function with too few positional arguments raises TypeError
\* before its body runs.
AdapterCallRaises == AdapterCallArguments # AdapterParameters

\* line 173: PROTOCOLS[protocol].get('image_sampler_map', {})
SamplerMap(protocol) ==
  IF "image_sampler_map" \in DOMAIN PROTOCOLS[protocol]
    THEN PROTOCOLS[protocol]["image_sampler_map"]
    ELSE << >>

\* lines 172-175: the sampler mapping of image endpoints.
MapSampler(endpoint_type, data, protocol) ==
  IF endpoint_type \in ImageEndpoints /\ "sampler_name" \in DOMAIN data
    THEN LET sampler_map == SamplerMap(protocol)
         IN  IF data["sampler_name"] \in DOMAIN sampler_map
               THEN Put(data, "sampler_name", sampler_map[data["sampler_name"]])
               ELSE data
    ELSE data

RequestAdapterKey(endpoint_type) ==
  CASE endpoint_type = "completions"      -> "completions_request_adapter"
    [] endpoint_type = "chat_completions" -> "chat_completions_request_adapter"
    [] endpoint_type = "txt2img"          -> "txt2img_request_adapter"
    [] endpoint_type = "img2img"          -> "img2img_request_adapter"

ResponseAdapterKey(endpoint_type) ==
  CASE endpoint_type = "completions"      -> "completions_response_adapter"
    [] endpoint_type = "chat_completions" -> "chat_completions_response_adapter"
    [] endpoint_type = "txt2img"          -> "txt2img_response_adapter"
    [] endpoint_type = "img2img"          -> "img2img_response_adapter"

RunRequestAdapter(name, data, target_url) ==
  CASE name = "sd_server_txt2img_request_adapter" -> sd_server_txt2img_request_adapter(data, target_url)
    [] name = "dalle_txt2img_request_adapter"     -> dalle_txt2img_request_adapter(data, target_url)

\* lines 172-184: the payload to forward, or the exception of the adapter call.
PreparePayload(endpoint_type, data, selected) ==
  LET mapped  == MapSampler(endpoint_type, data, selected.protocol)
      named   == Put(mapped, "model", selected.model_id)
      adapter == ProtocolGet(selected.protocol, RequestAdapterKey(endpoint_type))
  IN  IF adapter = None
        THEN [ raised |-> FALSE, data |-> named ]
        ELSE IF AdapterCallRaises
               THEN [ raised |-> TRUE, data |-> named ]
               ELSE [ raised |-> FALSE, data |-> RunRequestAdapter(adapter, named, selected.url) ]

\* line 187: data.get('stream', False)
ShouldStream(data) == IF "stream" \in DOMAIN data THEN data["stream"] ELSE FALSE

(***************************************************************************)
(* Responses of the proxy and outcomes of the upstream POST.               *)
(***************************************************************************)
ErrorResponse(status, error) == [ status |-> status, error |-> error, body |-> "json" ]

BodyResponse(status, body) == [ status |-> status, error |-> << >>, body |-> body ]

UpstreamStatuses == {200, 404, 503}

\* What requests.post and the reading of its result can do.
UpstreamOutcomes ==
  { [ kind |-> "transport_error", status |-> 0, content_type |-> None, json_ok |-> FALSE ] }
  \cup
  { [ kind |-> "response", status |-> st, content_type |-> "application/json", json_ok |-> TRUE ] :
      st \in UpstreamStatuses }
  \cup
  { [ kind |-> "response", status |-> 200, content_type |-> "application/json", json_ok |-> FALSE ],
    [ kind |-> "response", status |-> 200, content_type |-> "text/event-stream", json_ok |-> FALSE ] }

IdleRequest ==
  [ pc |-> "idle", endpoint_type |-> None, is_json |-> TRUE, data |-> << >>,
    model_instances |-> << >>, selected |-> << >>, sent |-> << >>,
    should_stream |-> FALSE, upstream |-> << >>, resp |-> << >>, relayed |-> FALSE,
    models |-> << >>, up |-> {}, ended |-> None ]

\* The handler (or the generator of a streamed response) has ended: its locals
\* are gone; what remains is the request and the response the client was given
\* (and, where a POST was issued, `upstream`: what became of it).
Finished(rq, resp) ==
  [ IdleRequest EXCEPT !.pc = "done", !.endpoint_type = rq.endpoint_type,
                       !.is_json = rq.is_json, !.data = rq.data, !.resp = << resp >>,
                       !.ended = "return" ]

(***************************************************************************)
(* proxy.py: handle_request and _handle_request up to line 157.  The       *)
(* client sends one of the requests of the menu; `up` is the set of peers  *)
(* that answer the registry's fan-out.                                     *)
(***************************************************************************)
RequiredKeys(endpoint_type) == IF endpoint_type \in ImageEndpoints THEN {"prompt"} ELSE {}

MissingKeys(endpoint_type, data) == RequiredKeys(endpoint_type) \ DOMAIN data

\* The handler's answer before any backend is selected, or << >> when the request
\* goes on to the selection.
EarlyResponse(endpoint_type, is_json, data, available_models) ==
  IF ~ is_json
    THEN << ErrorResponse(400, << "Request must be JSON" >>) >>
  ELSE IF MissingKeys(endpoint_type, data) # {}
    THEN << ErrorResponse(400, << "Missing required keys", MissingKeys(endpoint_type, data) >>) >>
  ELSE IF ~ Truthy(Get(data, "model"))
    THEN << ErrorResponse(400, << "Model not specified in the request" >>) >>
  ELSE IF LookupRaises(available_models, data["model"])
    THEN << ErrorResponse(500, << "Unexpected error", "KeyError", endpoint_type >>) >>
  ELSE IF ModelInstances(available_models, data["model"], endpoint_type) = << >>
    \* line 157 formats the 404 message from `model_name`, a name that is bound
    \* nowhere in _handle_request: NameError, answered by the handler of line 228.
    THEN << ErrorResponse(500, << "Unexpected error", "NameError", "model_name" >>) >>
  ELSE << >>

handle_request(r) ==
  /\ req[r].pc = "idle"
  /\ \E m \in menu, up \in SUBSET (1 .. Len(peers)) :
       /\ m.endpoint_type \in EndpointTypes
       /\ LET available_models == get_available_models(TRUE, TRUE, up)
              early == EarlyResponse(m.endpoint_type, m.is_json, m.data, available_models)
          IN  req' = [ req EXCEPT ![r] =
                IF early # << >>
                  THEN Finished(m, early[1])
                  ELSE [ @ EXCEPT !.pc = "await_lock", !.endpoint_type = m.endpoint_type,
                                  !.is_json = m.is_json, !.data = m.data, !.up = up,
                                  !.model_instances =
                                     ModelInstances(available_models, m.data["model"], m.endpoint_type) ] ]
  /\ UNCHANGED << registryVars, supervisorVars, controlVars, active_connections, menu >>

(***************************************************************************)
(* proxy.py lines 159-166: under connections_lock, the least-loaded        *)
(* candidate is selected and its counter incremented.                      *)
(***************************************************************************)
SelectInstance(r) ==
  /\ req[r].pc = "await_lock"
  /\ LET model_instances == req[r].model_instances
         touched  == Touch(active_connections, { model_instances[i].url : i \in 1 .. Len(model_instances) })
         selected == model_instances[SelectLeast(model_instances, active_connections)]
     IN  /\ active_connections' = Increment(touched, selected.url)
         /\ req' = [ req EXCEPT ![r].pc = "selected", ![r].selected = << selected >> ]
  /\ UNCHANGED << registryVars, supervisorVars, controlVars, menu >>

(***************************************************************************)
(* proxy.py lines 168-188: the payload is prepared and the POST is issued. *)
(* An exception of the adapter call leaves through the finally of line 220 *)
(* and is answered by the handler of line 228.                             *)
(***************************************************************************)
Forward(r) ==
  /\ req[r].pc = "selected"
  /\ LET selected == req[r].selected[1]
         payload  == PreparePayload(req[r].endpoint_type, req[r].data, selected)
     IN  IF payload.raised
           THEN /\ active_connections' = Decrement(active_connections, selected.url)
                /\ req' = [ req EXCEPT ![r] =
                              Finished(@, ErrorResponse(500, << "Unexpected error", "TypeError" >>)) ]
           ELSE /\ req' = [ req EXCEPT ![r].pc = "posted",
                              ![r].sent = << payload.data >>,
                              ![r].should_stream = ShouldStream(payload.data) ]
                /\ UNCHANGED active_connections
  /\ UNCHANGED << registryVars, supervisorVars, controlVars, menu >>

(***************************************************************************)
(* proxy.py lines 188-230: requests.post returns or raises; the response   *)
(* is built; the finally of line 220 decrements the counter as the handler *)
(* returns.  For a streamed response the handler returns the Response      *)
(* around the generator: generate() runs only afterwards, when the server  *)
(* iterates the body.                                                      *)
(***************************************************************************)
\* Mutant of HandlerResult: whatever the backend answered is passed on as 200.
HandlerResultOk(endpoint_type, protocol, should_stream, out) ==
  IF out.kind = "transport_error"
    THEN ErrorResponse(500, << "Network error" >>)
    ELSE BodyResponse(200, IF should_stream THEN "stream" ELSE "json")

HandlerResult(endpoint_type, protocol, should_stream, out) ==
  IF out.kind = "transport_error"
    THEN ErrorResponse(500, << "Network error" >>)
  ELSE IF should_stream
    THEN BodyResponse(out.status, "stream")
  ELSE IF out.content_type = "application/json"
    THEN IF ~ out.json_ok
           THEN ErrorResponse(500, << "JSONDecodeError" >>)
         ELSE IF ProtocolGet(protocol, ResponseAdapterKey(endpoint_type)) # None /\ AdapterCallRaises
           THEN ErrorResponse(500, << "Unexpected error", "TypeError" >>)
         ELSE BodyResponse(out.status, "json")
  ELSE BodyResponse(out.status, "bytes")

Complete(r) ==
  /\ req[r].pc = "posted"
  /\ \E out \in UpstreamOutcomes :
       LET selected == req[r].selected[1]
           result   == HandlerResult(req[r].endpoint_type, selected.protocol, req[r].should_stream, out)
       IN  /\ active_connections' = Decrement(active_connections, selected.url)
           /\ req' = [ req EXCEPT ![r] =
                         IF result.body = "stream"
                           THEN [ @ EXCEPT !.pc = "streaming", !.upstream = << out >>,
                                           !.resp = << result >> ]
                           ELSE [ Finished(@, result) EXCEPT !.upstream = << out >> ] ]
  /\ UNCHANGED << registryVars, supervisorVars, controlVars, menu >>

(***************************************************************************)
(* proxy.py lines 192-201: generate(), the relay of a streamed response.   *)
(***************************************************************************)
RelayChunk(r) ==
  /\ req[r].pc = "streaming"
  /\ req' = [ req EXCEPT ![r].relayed = TRUE ]
  /\ UNCHANGED << registryVars, supervisorVars, controlVars, active_connections, menu >>

\* The upstream closes (or the read fails): the loop ends, resp.close().
UpstreamClose(r) ==
  /\ req[r].pc = "streaming"
  /\ req' = [ req EXCEPT ![r] = [ Finished(@, @.resp[1]) EXCEPT !.upstream = req[r].upstream,
                                                                !.ended = "upstream_close" ] ]
  /\ UNCHANGED << registryVars, supervisorVars, controlVars, active_connections, menu >>

\* The client goes away.  The proxy notices when the server writes the body:
\* the generator is closed (GeneratorExit at the yield, then resp.close()).
\* A client that left earlier is noticed at the first write.
ClientDisconnect(r) ==
  /\ req[r].pc = "streaming"
  /\ req' = [ req EXCEPT ![r] = [ Finished(@, @.resp[1]) EXCEPT !.upstream = req[r].upstream,
                                                                !.ended = "client_disconnect" ] ]
  /\ UNCHANGED << registryVars, supervisorVars, controlVars, active_connections, menu >>

(***************************************************************************)
(* proxy.py lines 32-47: GET /v1/models.                                   *)
(***************************************************************************)
TextCapable(protocol) ==
  /\ protocol \in DOMAIN PROTOCOLS
  /\ (PROTOCOLS[protocol]["completions"] # None \/ PROTOCOLS[protocol]["chat_completions"] # None)

\* The values of unique_models in insertion order: the first text-capable
\* entry of each model_name.
RECURSIVE UniqueModels(_, _)
UniqueModels(available_models, seen) ==
  IF available_models = << >> THEN << >>
  ELSE LET model == Head(available_models)
       IN  IF TextCapable(model.listener.protocol) /\ model.model_name \notin seen
             THEN << [ id |-> model.model_name, owned_by |-> model.source ] >>
                  \o UniqueModels(Tail(available_models), seen \cup {model.model_name})
             ELSE UniqueModels(Tail(available_models), seen)

get_models(r) ==
  /\ req[r].pc = "idle"
  /\ \E m \in menu, up \in SUBSET (1 .. Len(peers)) :
       /\ m.endpoint_type = "GET /v1/models"
       /\ req' = [ req EXCEPT ![r] =
             [ Finished(m, [ status |-> 200, error |-> << >>, body |-> "json" ])
                 EXCEPT !.models = UniqueModels(get_available_models(TRUE, TRUE, up), {}),
                        !.up = up ] ]
  /\ UNCHANGED << registryVars, supervisorVars, controlVars, active_connections, menu >>

(***************************************************************************)
(* proxy.py lines 104-107: GET /health.  A view that returns None makes    *)
(* Flask raise TypeError, which it answers with its 500 page.              *)
(***************************************************************************)
\* Mutant of HealthResponse: the node is healthy whatever runs.
HealthResponseAlwaysOk(available_models) ==
  [ status |-> ProtocolGet("openai", "health_status"), error |-> << >>, body |-> "" ]

HealthResponse(available_models) ==
  IF Len(available_models) > 0
    THEN [ status |-> ProtocolGet("openai", "health_status"), error |-> << >>, body |-> "" ]
    ELSE [ status |-> 500, error |-> << "TypeError", "view returned None" >>, body |-> "html" ]

health_check(r) ==
  /\ req[r].pc = "idle"
  /\ \E m \in menu :
       /\ m.endpoint_type = "GET /health"
       /\ req' = [ req EXCEPT ![r] =
                     Finished(m, HealthResponse(get_available_models(TRUE, FALSE, {}))) ]
  /\ UNCHANGED << registryVars, supervisorVars, controlVars, active_connections, menu >>

(***************************************************************************)
(* proxy.py lines 16-30 and zk.py lines 174-181: the URL rules.  A request *)
(* no rule matches is answered by Flask with its 404 page.                 *)
(***************************************************************************)
Routes ==
  { "GET /health", "GET /.well-known/serviceinfo", "GET /v1/models",
    "POST /v1/completions", "POST /v1/chat/completions",
    "GET /sdapi/v1/sd-models", "POST /sdapi/v1/txt2img", "POST /sdapi/v1/img2img",
    "GET /", "POST /api/model/launch", "POST /api/model/stop", "POST /api/model/logs",
    "POST /api/model/status", "GET /api/running_models" }

\* The request line of a request of the menu; the requests to the four
\* endpoint classes are named by their class.
RequestLine(endpoint_type) ==
  CASE endpoint_type = "completions"      -> "POST /v1/completions"
    [] endpoint_type = "chat_completions" -> "POST /v1/chat/completions"
    [] endpoint_type = "txt2img"          -> "POST /sdapi/v1/txt2img"
    [] endpoint_type = "img2img"          -> "POST /sdapi/v1/img2img"
    [] OTHER                              -> endpoint_type

not_found(r) ==
  /\ req[r].pc = "idle"
  /\ \E m \in menu :
       /\ RequestLine(m.endpoint_type) \notin Routes
       /\ req' = [ req EXCEPT ![r] =
                     Finished(m, [ status |-> 404, error |-> << "Not Found" >>, body |-> "html" ]) ]
  /\ UNCHANGED << registryVars, supervisorVars, controlVars, active_connections, menu >>

NextProxy ==
  \/ \E r \in RequestIds : handle_request(r)
  \/ \E r \in RequestIds : SelectInstance(r)
  \/ \E r \in RequestIds : Forward(r)
  \/ \E r \in RequestIds : Complete(r)
  \/ \E r \in RequestIds : RelayChunk(r)
  \/ \E r \in RequestIds : UpstreamClose(r)
  \/ \E r \in RequestIds : ClientDisconnect(r)

(***************************************************************************)
(* base.py: Environment and EnvironmentSet (lines 36-92).  A string is a   *)
(* sequence of tokens, so that joining strings is concatenation; a dict    *)
(* that is iterated (Environment.vars, the combined vars) is the sequence  *)
(* of its << key, value >> items in insertion order.                       *)
(***************************************************************************)
Environment(name, items) == [ name |-> << name >>, vars |-> items ]

Keys(items) == { items[n][1] : n \in 1 .. Len(items) }

\* items[key], for a key the dict holds.
Item(items, key) == items[CHOOSE n \in 1 .. Len(items) : items[n][1] = key][2]

\* Mutant of MergeVar: a later value replaces the earlier one.
MergeVarOverwrite(combined_vars, key, value) ==
  IF key \in Keys(combined_vars)
    THEN [ n \in 1 .. Len(combined_vars) |->
             IF combined_vars[n][1] = key THEN << key, value >> ELSE combined_vars[n] ]
    ELSE Append(combined_vars, << key, value >>)

\* lines 86-90: one key of one environment.
MergeVar(combined_vars, key, value) ==
  IF key \in Keys(combined_vars)
    THEN [ n \in 1 .. Len(combined_vars) |->
             IF combined_vars[n][1] = key
               THEN << key, combined_vars[n][2] \o << "," >> \o value >>
               ELSE combined_vars[n] ]
    ELSE Append(combined_vars, << key, value >>)

\* lines 85-90: the inner loop over one environment's vars.
RECURSIVE MergeVars(_, _)
MergeVars(combined_vars, items) ==
  IF items = << >> THEN combined_vars
  ELSE MergeVars(MergeVar(combined_vars, Head(items)[1], Head(items)[2]), Tail(items))

\* lines 82-92: the loop over the environments, from combined_vars so far.
RECURSIVE MergeEnvironments(_, _)
MergeEnvironments(combined_vars, environments) ==
  IF environments = << >> THEN combined_vars
  ELSE MergeEnvironments(MergeVars(combined_vars, Head(environments).vars), Tail(environments))

get_combined_vars(environments) == MergeEnvironments(<< >>, environments)

\* sep.join(strings)
RECURSIVE Join(_, _)
Join(sep, strings) ==
  IF strings = << >> THEN << >>
  ELSE IF Len(strings) = 1 THEN strings[1]
  ELSE strings[1] \o << sep >> \o Join(sep, Tail(strings))

get_combined_name(environments) ==
  IF environments = << >> THEN << "empty" >>
  ELSE Join("+", [ n \in 1 .. Len(environments) |-> environments[n].name ])

(***************************************************************************)
(* base.py: RunningModel._start_process, lines 186-190: the child's env.   *)
(* A dict that is only looked up is a function from its keys.              *)
(***************************************************************************)
\* dict(items)
AsDict(items) == [ key \in Keys(items) |-> Item(items, key) ]

\* Mutant of Update: keys the dict already holds keep their value.
UpdateMissing(d, e) ==
  [ key \in DOMAIN d \cup DOMAIN e |-> IF key \in DOMAIN d THEN d[key] ELSE e[key] ]

\* d.update(e)
Update(d, e) ==
  [ key \in DOMAIN d \cup DOMAIN e |-> IF key \in DOMAIN e THEN e[key] ELSE d[key] ]

ChildEnvironment(host, environments, extra) ==
  LET env1 == Update(host, AsDict(get_combined_vars(environments)))
      env2 == Update(env1, extra)
  IN  Update(env2, [ key \in {"CUDA_DEVICE_ORDER"} |-> << "PCI_BUS_ID" >> ])

(***************************************************************************)
(* base.py: the log ring (lines 163, 174-181, 214-219, 255-261).           *)
(***************************************************************************)
\* line 163: deque(maxlen=100)
LogBufferMaxlen == 100

\* Mutant of RingAppend: a full ring refuses the new line.
RingAppendKeepOldest(buffer, line) ==
  IF Len(buffer) >= LogBufferMaxlen THEN buffer ELSE Append(buffer, line)

\* deque.append on a bounded deque: a full deque discards its oldest item.
RingAppend(buffer, line) ==
  IF Len(buffer) >= LogBufferMaxlen THEN Append(Tail(buffer), line) ELSE Append(buffer, line)

RECURSIVE RingExtend(_, _)
RingExtend(buffer, lines) ==
  IF lines = << >> THEN buffer ELSE RingExtend(RingAppend(buffer, Head(lines)), Tail(lines))

\* lines 176-181: the banner, one line per combined variable.
SeedLines(environments) ==
  LET env_vars == get_combined_vars(environments)
  IN  << << "Command" >>, << "Environment:" >> >>
      \o [ n \in 1 .. Len(env_vars) |-> << " ", env_vars[n][1], "=" >> \o env_vars[n][2] ]
      \o << << "---" >> >>

seed_logs(environments) == RingExtend(<< >>, SeedLines(environments))

\* The n-th line the child writes.
ChildLine(n) == << "line", n >>

\* logs(): line 261
logs(i) == log_buffer[i]

(***************************************************************************)
(* Initial states: the node after its models were launched.                *)
(***************************************************************************)
Model(zoo_name, model_id, model_format, model_name) ==
  [ zoo_name |-> zoo_name, model_id |-> model_id, model_format |-> model_format,
    model_name |-> model_name ]

\* base.py: the RunningModel after __init__ (lines 155-172 and _start_process).
\* `process` and `log_thread` tell whether the attribute holds an object (TRUE)
\* or None (FALSE); `pgid` is << >> for None and << id >> otherwise.
RunningModel(model, protocol, port, pgid) ==
  [ model |-> model, listener |-> [ protocol |-> protocol, host |-> "0.0.0.0", port |-> port ],
    process |-> TRUE, pgid |-> << pgid >>, running |-> TRUE, log_thread |-> TRUE ]

\* No stop() has been called; every child runs.
InitSupervisor ==
  /\ os = [ i \in DOMAIN rm |-> "live" ]
  /\ signals = << >>
  /\ calls = << >>
  /\ stopper = << >>

IdleStatusCall == [ pc |-> "idle", rm |-> 0, held |-> FALSE, live |-> FALSE, after_stop |-> FALSE ]

\* Nobody has asked for a status.
InitStatus ==
  /\ status_call = IdleStatusCall
  /\ last_status = << >>

\* The control plane's own environment.
HostEnvironments ==
  { [ key \in {"HOME"} |-> << "/root" >> ],
    [ key \in {"HOME", "CUDA_VISIBLE_DEVICES", "CUDA_DEVICE_ORDER"} |->
        CASE key = "HOME" -> << "/root" >>
          [] key = "CUDA_VISIBLE_DEVICES" -> << "7" >>
          [] key = "CUDA_DEVICE_ORDER" -> << "FASTEST_FIRST" >> ] }

\* Every RunningModel was constructed with an empty EnvironmentSet and no
\* overrides, and its child has written nothing yet.
InitEnvironment ==
  /\ environment_set = << >>
  /\ extra_environment = << >>
  /\ environ = [ key \in {"HOME"} |-> << "/root" >> ]
  /\ child_env = [ i \in DOMAIN rm |-> ChildEnvironment(environ, environment_set, extra_environment) ]
  /\ env_name = << >>
  /\ log_buffer = [ i \in DOMAIN rm |-> seed_logs(environment_set) ]
  /\ lines_read = [ i \in DOMAIN rm |-> 0 ]

IdleHandler == [ pc |-> "idle", next |-> 0, models |-> << >> ]

\* main.py: the server serves and no signal has arrived.
InitServing ==
  /\ handler = IdleHandler
  /\ http_server = "serving"

\* ModelHistory.__init__ without a history file; nothing was launched through
\* the API.
InitHistory ==
  /\ model_history = << >>
  /\ launch = << >>

\* No registry call and no dashboard stop yet.
InitDashboard ==
  /\ registry_call = << >>
  /\ stop_model = [ pending |-> << >>, pops |-> << >> ]

InitControl == InitStatus /\ InitEnvironment /\ InitServing /\ InitHistory /\ InitDashboard

Request(endpoint_type, data) == [ endpoint_type |-> endpoint_type, is_json |-> TRUE, data |-> data ]

\* Scenario S2: two local instances of "foo" on ports 50001 and 50002, and an
\* sd-server instance "sd"; three clients.
BalanceMenu ==
  { Request("completions", [ model |-> "foo" ]),
    Request("completions", [ model |-> "foo", stream |-> TRUE ]),
    Request("txt2img", [ model |-> "sd", prompt |-> "p", sampler_name |-> "Euler", steps |-> 8 ]) }

Init ==
  /\ catalog = << Model("zoo", "/models/foo.gguf", "gguf", "foo"),
                  Model("zoo", "/models/sd.kcppt", "kcppt", "sd") >>
  /\ rm = << RunningModel(1, "openai", 50001, 101),
             RunningModel(1, "openai", 50002, 102),
             RunningModel(2, "sd-server", 50003, 103) >>
  /\ running_models = << 1, 2, 3 >>
  /\ peers = << >>
  /\ peer_models = << >>
  /\ active_connections = << >>
  /\ req = [ r \in 1 .. NumRequests |-> IdleRequest ]
  /\ menu = BalanceMenu
  /\ InitSupervisor
  /\ InitControl

Spec == Init /\ [][NextProxy]_vars

(***************************************************************************)
(* Properties of the connection counters (specification Spec).             *)
(***************************************************************************)
\* The requests whose handler is between the increment of line 163 and the
\* finally of line 220, by target URL.
InHandler(u) ==
  { r \in RequestIds : req[r].pc \in {"selected", "posted"} /\ req[r].selected[1].url = u }

AllFinished == \A r \in RequestIds : req[r].pc = "done"

RespError(r) == req[r].resp[1].error

\* C1: counter conservation: once every request has finished (answered,
\* failed upstream, failed in transport, failed in an adapter call, or aborted
\* by the client), every entry of active_connections is 0.
C1_CounterConservation ==
  AllFinished => \A u \in DOMAIN active_connections : active_connections[u] = 0

\* All requests have finished, among them one that failed in the adapter call,
\* one that failed in transport and one whose stream the client aborted.
C1_Witness ==
  /\ AllFinished
  /\ \E r \in RequestIds : RespError(r) = << "Unexpected error", "TypeError" >>
  /\ \E r \in RequestIds : RespError(r) = << "Network error" >>
  /\ \E r \in RequestIds : req[r].ended = "client_disconnect"
  /\ Cardinality(DOMAIN active_connections) = 3

FooUrls == { Url("127.0.0.1", 50001, "/v1/completions"), Url("127.0.0.1", 50002, "/v1/completions") }

FooCounts == { Count(active_connections, u) : u \in FooUrls }

\* The step of SelectInstance picks a candidate whose counter is minimal among
\* the candidates' counters and increments exactly that counter.
SelectionIsLeast ==
  \A r \in RequestIds :
    (req[r].pc = "await_lock" /\ req'[r].pc = "selected") =>
       LET chosen == req'[r].selected[1].url
           urls   == { req[r].model_instances[i].url : i \in 1 .. Len(req[r].model_instances) }
       IN  /\ chosen \in urls
           /\ \A u \in urls : Count(active_connections, chosen) <= Count(active_connections, u)
           /\ active_connections'[chosen] = Count(active_connections, chosen) + 1
           /\ \A u \in DOMAIN active_connections' \ {chosen} :
                 active_connections'[u] = Count(active_connections, u)

\* With three requests for "foo" inside their handlers the two counters are
\* 2 and 1; no counter ever reaches 3 while the other instance is idle.
PeakCounts ==
  /\ Cardinality(UNION { InHandler(u) : u \in FooUrls }) = 3 => FooCounts = {1, 2}
  /\ ~ (3 \in FooCounts /\ 0 \in FooCounts)

\* C2: the least-connections selection is atomic (min-find and increment in
\* one step, on a minimal candidate); with two instances of "foo" and three
\* concurrent requests the peak counts are {2,1} or {1,2}, never {3,0}.
C2_LeastConnections == [][SelectionIsLeast]_vars /\ []PeakCounts

\* Three requests for "foo" are in flight at once.
C2_Witness ==
  /\ Cardinality(UNION { InHandler(u) : u \in FooUrls }) = 3
  /\ FooCounts = {1, 2}

\* C3: a request is counted on its target from the selection (before the POST
\* is issued) until its handler leaves, and on no exit path is it counted
\* afterwards or subtracted twice: every counter equals the number of
\* requests inside their handlers on that URL, and none is negative.
C3_IncrementDecrementOnce ==
  \A u \in DOMAIN active_connections :
    /\ active_connections[u] = Cardinality(InHandler(u))
    /\ active_connections[u] >= 0

\* A POST is in flight (counted once) after requests left through the adapter
\* exception and through a transport error.
C3_Witness ==
  /\ \E r \in RequestIds : req[r].pc = "posted" /\ active_connections[req[r].selected[1].url] = 1
  /\ \E r \in RequestIds : req[r].pc = "done" /\ RespError(r) = << "Unexpected error", "TypeError" >>
  /\ \E r \in RequestIds : req[r].pc = "done" /\ RespError(r) = << "Network error" >>

\* C4 (as claimed): a streamed request stays counted on its target for as long
\* as its chunks are relayed.
C4_StreamCounted ==
  \A r \in RequestIds :
    req[r].pc = "streaming" => Count(active_connections, req[r].selected[1].url) >= 1

\* The request of scenario S4.
S4Request(r) ==
  /\ req[r].endpoint_type = "txt2img"
  /\ DOMAIN req[r].data = {"model", "prompt", "sampler_name", "steps"}
  /\ req[r].data["model"] = "sd" /\ req[r].data["prompt"] = "p"
  /\ req[r].data["sampler_name"] = "Euler" /\ req[r].data["steps"] = 8

\* C18 (as claimed): the txt2img request of scenario S4, routed to the
\* sd-server backend, is forwarded upstream as exactly
\* {prompt: "p", sample_method: "euler", sample_steps: 8}.
C18_SdServerPayload ==
  \A r \in RequestIds :
    S4Request(r) =>
      /\ req[r].pc = "posted" =>
           req[r].sent = << [ prompt |-> "p", sample_method |-> "euler", sample_steps |-> 8 ] >>
      /\ req[r].pc = "done" => RespError(r) # << "Unexpected error", "TypeError" >>

\* C25 (as claimed): a txt2img request routed to the sd-server backend is
\* posted, and it completes only with what the response adapter's polling
\* gives: the images of a poll that reported "Done", the adapter's failure for
\* a missing task_id, or the error of a failed transport.
C25_SdServerPolled ==
  \A r \in RequestIds :
    (/\ req[r].pc = "done" /\ req[r].endpoint_type = "txt2img"
     /\ {"model", "prompt"} \subseteq DOMAIN req[r].data /\ req[r].data["model"] = "sd") =>
      /\ req[r].upstream # << >>
      /\ RespError(r) \in { << >>, << "Network error" >>,
                            << "Unexpected error", "task_id was not returned by server" >> }

(***************************************************************************)
(* The child of a RunningModel, as the operating system sees it.           *)
(***************************************************************************)
\* Mutant of ChildExit: the node reaps a child that exits and drops its
\* RunningModel from the running list.
ChildExitReaps(i) ==
  /\ os[i] = "live"
  /\ os' = [ os EXCEPT ![i] = "exited" ]
  /\ running_models' = SelectSeq(running_models, LAMBDA id : id # i)
  /\ UNCHANGED << catalog, rm, peers, peer_models, proxyVars, controlVars, signals, calls,
                  stopper >>

\* The root child exits, on its own or because of a signal it received.
ChildExit(i) ==
  /\ os[i] = "live"
  /\ os' = [ os EXCEPT ![i] = "exited" ]
  /\ UNCHANGED << registryVars, proxyVars, controlVars, signals, calls, stopper >>

(***************************************************************************)
(* Routing: one client, any request of the public surface, against a node  *)
(* with local models and peers.                                            *)
(***************************************************************************)
PeerModel(model_name, model_id, protocol, port) ==
  [ model_name |-> model_name, model_id |-> model_id,
    listener |-> [ protocol |-> protocol, host |-> "127.0.0.1", port |-> port ],
    source |-> << "local" >> ]

Bodies ==
  { << >>,
    [ model |-> "" ],
    [ prompt |-> "p" ],
    [ model |-> "", prompt |-> "p" ],
    [ model |-> "ghost" ],
    [ model |-> "ghost", prompt |-> "p" ],
    [ model |-> "foo" ],
    [ model |-> "foo", stream |-> TRUE ],
    [ model |-> "foo", prompt |-> "p", sampler_name |-> "Euler" ],
    [ model |-> "bar" ],
    [ model |-> "odd" ],
    [ model |-> "sd" ],
    [ model |-> "sd", prompt |-> "p", sampler_name |-> "Euler", steps |-> 8 ],
    [ model |-> "flux", prompt |-> "cat", sampler_name |-> "Euler", size |-> "512x512", steps |-> 4 ] }

RoutingMenu ==
  { Request(e, d) : e \in EndpointTypes, d \in Bodies }
  \cup { [ endpoint_type |-> "completions", is_json |-> FALSE, data |-> << >> ],
         Request("GET /v1/models", << >>),
         Request("GET /health", << >>),
         \* scenario S3
         Request("POST /v1/images/generations",
                 [ model |-> "flux", prompt |-> "cat", sampler_name |-> "Euler",
                   size |-> "512x512", steps |-> 4 ]) }

Registries ==
  { \* a local "foo"; peer hostB advertises "foo" and "bar"; peer hostC advertises
    \* "bar", a dall-e "flux" and a model behind a protocol this table does not know
    [ catalog |-> << Model("zoo", "/models/foo.gguf", "gguf", "foo") >>,
      rm |-> << RunningModel(1, "openai", 50001, 101) >>,
      running_models |-> << 1 >>,
      peers |-> << [ host |-> "hostB", port |-> 3333 ], [ host |-> "hostC", port |-> 3333 ] >>,
      peer_models |-> << << PeerModel("foo", "/b/foo.gguf", "openai", 50010),
                            PeerModel("bar", "/b/bar.gguf", "openai", 50011) >>,
                         << PeerModel("bar", "/c/bar.gguf", "openai", 50020),
                            PeerModel("flux", "openai/flux", "dall-e", 50021),
                            PeerModel("odd", "/c/odd.bin", "http", 50022) >> >> ],
    \* nothing runs anywhere
    [ catalog |-> << Model("zoo", "/models/foo.gguf", "gguf", "foo") >>,
      rm |-> << >>, running_models |-> << >>, peers |-> << >>, peer_models |-> << >> ],
    \* local image backends: an sd-server "sd" and an a1111 "foo"
    [ catalog |-> << Model("zoo", "/models/sd.kcppt", "kcppt", "sd"),
                     Model("zoo", "/models/foo.kcppt", "kcppt", "foo") >>,
      rm |-> << RunningModel(1, "sd-server", 50003, 103), RunningModel(2, "a1111", 50004, 104) >>,
      running_models |-> << 1, 2 >>,
      peers |-> << [ host |-> "hostB", port |-> 3333 ] >>,
      peer_models |-> << << PeerModel("foo", "/b/foo.gguf", "openai", 50010) >> >> ],
    \* a local "foo"; peer hostD's list has an element without 'listener' between
    \* two well-formed ones; peer hostB advertises "bar"
    [ catalog |-> << Model("zoo", "/models/foo.gguf", "gguf", "foo") >>,
      rm |-> << RunningModel(1, "openai", 50001, 101) >>,
      running_models |-> << 1 >>,
      peers |-> << [ host |-> "hostD", port |-> 3333 ], [ host |-> "hostB", port |-> 3333 ] >>,
      peer_models |-> << << PeerModel("baz", "/d/baz.gguf", "openai", 50030),
                            [ model_name |-> "bad", model_id |-> "/d/bad.gguf" ],
                            PeerModel("qux", "/d/qux.gguf", "openai", 50031) >>,
                         << PeerModel("bar", "/b/bar.gguf", "openai", 50011) >> >> ],
    \* nothing runs locally; peer hostB advertises "foo"
    [ catalog |-> << Model("zoo", "/models/foo.gguf", "gguf", "foo") >>,
      rm |-> << >>, running_models |-> << >>,
      peers |-> << [ host |-> "hostB", port |-> 3333 ] >>,
      peer_models |-> << << PeerModel("foo", "/b/foo.gguf", "openai", 50010) >> >> ],
    \* a local "foo"; peer hostE advertises a "foo" behind a protocol this table
    \* does not know
    [ catalog |-> << Model("zoo", "/models/foo.gguf", "gguf", "foo") >>,
      rm |-> << RunningModel(1, "openai", 50001, 101) >>,
      running_models |-> << 1 >>,
      peers |-> << [ host |-> "hostE", port |-> 3333 ] >>,
      peer_models |-> << << PeerModel("foo", "/e/foo.bin", "http", 50040) >> >> ] }

InitRouting ==
  /\ \E g \in Registries :
       /\ catalog = g.catalog
       /\ rm = g.rm
       /\ running_models = g.running_models
       /\ peers = g.peers
       /\ peer_models = g.peer_models
  /\ active_connections = << >>
  /\ req = [ r \in {1} |-> IdleRequest ]
  /\ menu = RoutingMenu
  /\ InitSupervisor
  /\ InitControl

NextRouting ==
  \/ \E r \in RequestIds : handle_request(r)
  \/ \E r \in RequestIds : get_models(r)
  \/ \E r \in RequestIds : SelectInstance(r)
  \/ \E r \in RequestIds : Forward(r)
  \/ \E r \in RequestIds : Complete(r)
  \/ \E r \in RequestIds : RelayChunk(r)
  \/ \E r \in RequestIds : UpstreamClose(r)
  \/ \E r \in RequestIds : ClientDisconnect(r)
  \/ \E r \in RequestIds : health_check(r)
  \/ \E r \in RequestIds : not_found(r)
  \/ \E i \in DOMAIN rm : ChildExit(i)

SpecRouting == InitRouting /\ [][NextRouting]_vars

(***************************************************************************)
(* Properties of the routing (specification SpecRouting).                  *)
(***************************************************************************)
Routed(r) == req[r].pc = "done" /\ req[r].endpoint_type \in EndpointTypes /\ req[r].is_json

\* No instance the registry can list matches the name with an endpoint for E.
NoInstance(model, endpoint_type) ==
  \A up \in SUBSET (1 .. Len(peers)) :
    LET available_models == get_available_models(TRUE, TRUE, up)
    IN  /\ ~ LookupRaises(available_models, model)
        /\ ModelInstances(available_models, model, endpoint_type) = << >>

\* C5 (as claimed): a request naming a model with no matching instance is
\* answered 404 "Model <name> not found or not running".  (Names advertised
\* only behind a protocol outside the table are left to C28.)
C5_NotFound ==
  \A r \in RequestIds :
    ( /\ Routed(r)
      /\ MissingKeys(req[r].endpoint_type, req[r].data) = {}
      /\ "model" \in DOMAIN req[r].data /\ req[r].data["model"] \notin {"", None}
      /\ NoInstance(req[r].data["model"], req[r].endpoint_type) )
    => /\ req[r].resp[1].status = 404
       /\ req[r].resp[1].error = << "Model", req[r].data["model"], "not found or not running" >>

\* The body has no `model` field, or an empty or null one.
NoModel(r) ==
  Routed(r) /\ ("model" \notin DOMAIN req[r].data \/ req[r].data["model"] \in {"", None})

NoPrompt(r) ==
  Routed(r) /\ req[r].endpoint_type \in ImageEndpoints /\ "prompt" \notin DOMAIN req[r].data

\* C6 (as claimed): every request without a model is answered 400 "Model not
\* specified in the request".
C6_ModelNotSpecified ==
  \A r \in RequestIds :
    NoModel(r) => /\ req[r].resp[1].status = 400
                  /\ req[r].resp[1].error = << "Model not specified in the request" >>

\* The answers to requests without model or, on image endpoints, without prompt.
BadRequestAnswers ==
  \A r \in RequestIds :
    /\ NoPrompt(r) => /\ req[r].resp[1].status = 400
                      /\ req[r].resp[1].error = << "Missing required keys", {"prompt"} >>
    /\ (NoModel(r) /\ ~ NoPrompt(r)) =>
                      /\ req[r].resp[1].status = 400
                      /\ req[r].resp[1].error = << "Model not specified in the request" >>

\* Such a request is answered by the step that receives it: no instance is
\* selected, nothing is posted, the counters stay as they were.
BadRequestTouchesNothing ==
  \A r \in RequestIds :
    (req[r].pc # "done" /\ req'[r].pc = "done" /\ (NoModel(r) \/ NoPrompt(r))')
      => /\ req[r].pc = "idle"
         /\ active_connections' = active_connections

\* C6 (amended): a request without model is answered 400, with "Model not
\* specified in the request" unless it is an image request without prompt,
\* which is answered 400 "Missing required keys: prompt" whether or not it
\* names a model; in both cases no backend is contacted and the counters are
\* unchanged.
C6_BadRequest == []BadRequestAnswers /\ [][BadRequestTouchesNothing]_vars

\* An image request with a prompt and no model, and nothing touched.
C6_Witness ==
  \E r \in RequestIds :
    /\ NoModel(r) /\ req[r].endpoint_type = "txt2img" /\ DOMAIN req[r].data = {"prompt"}
    /\ req[r].resp[1].status = 400
    /\ req[r].resp[1].error = << "Model not specified in the request" >>
    /\ active_connections = << >>

LocalTextNames ==
  { catalog[rm[running_models[k]].model].model_name :
      k \in { j \in 1 .. Len(running_models) : TextCapable(rm[running_models[j]].listener.protocol) } }

\* The peers among `up` that advertise a text-capable model named M.
Advertisers(M, up) ==
  { i \in up : \E k \in 1 .. Len(peer_models[i]) :
      peer_models[i][k].model_name = M /\ TextCapable(peer_models[i][k].listener.protocol) }

Entries(models, M) == { k \in 1 .. Len(models) : models[k].id = M }

\* C7 (as claimed): in GET /v1/models a local text-capable model that a peer
\* advertises too appears once, owned by "modelzoo"; a model advertised by
\* one peer only appears once, owned by "remote:<host>".
C7_LocalWins ==
  \A r \in RequestIds :
    (req[r].pc = "done" /\ req[r].endpoint_type = "GET /v1/models") =>
      \A M \in {"foo", "bar"} :
        LET entries == Entries(req[r].models, M)
            adv     == Advertisers(M, req[r].up)
        IN  /\ (M \in LocalTextNames /\ adv # {}) =>
                 /\ Cardinality(entries) = 1
                 /\ \A k \in entries : req[r].models[k].owned_by = << "modelzoo" >>
            /\ (M \notin LocalTextNames /\ Cardinality(adv) = 1) =>
                 /\ Cardinality(entries) = 1
                 /\ \A k \in entries, i \in adv :
                       req[r].models[k].owned_by = << "remote", peers[i].host >>

\* C16: GET /health answers 200 with an empty body if and only if the local
\* running-models list is non-empty, whether or not the children of those
\* models still run and whatever the peers advertise; with no local model the
\* answer is not 200.
C16_Health ==
  \A r \in RequestIds :
    (req[r].pc = "done" /\ req[r].endpoint_type = "GET /health") =>
      /\ (req[r].resp[1].status = 200 /\ req[r].resp[1].body = "") <=> running_models # << >>
      /\ running_models = << >> => req[r].resp[1].status # 200

\* /health has answered 200 on a node whose only local model's child has
\* exited.
C16_Witness ==
  \E r \in RequestIds :
    /\ req[r].pc = "done" /\ req[r].endpoint_type = "GET /health"
    /\ req[r].resp[1].status = 200
    /\ Len(running_models) = 1 /\ os[running_models[1]] = "exited"

\* The request of scenario S3.
S3Request(r) ==
  /\ req[r].endpoint_type = "POST /v1/images/generations"
  /\ DOMAIN req[r].data = {"model", "prompt", "sampler_name", "size", "steps"}
  /\ req[r].data["model"] = "flux"

\* C19 (as claimed): the request of scenario S3 is accepted and, routed to the
\* dall-e backend, forwarded with quality "hd", a style from the sampler, size
\* "512x512", response_format "b64_json" and none of sampler_name, steps,
\* width, height.
C19_DalleRequest ==
  \A r \in RequestIds :
    S3Request(r) =>
      /\ req[r].pc = "done" => req[r].resp[1].status # 404
      /\ req[r].pc = "posted" =>
           LET sent == req[r].sent[1]
           IN  /\ {"quality", "style", "size", "response_format"} \subseteq DOMAIN sent
               /\ sent["quality"] = "hd" /\ sent["size"] = "512x512"
               /\ sent["response_format"] = "b64_json"
               /\ sent["style"] \in {"Euler", "natural"}
               /\ DOMAIN sent \cap {"sampler_name", "steps", "width", "height"} = {}

\* The fetch of peer i's list failed (i is not among the peers that answered
\* with a parsable body), or the list holds a malformed element.
PeerFailed(i, up) ==
  i \notin up \/ \E n \in 1 .. Len(peer_models[i]) : ~ WellFormed(peer_models[i][n])

\* C15 (as claimed): a peer whose fetch or parse fails in any way contributes
\* no model at all, and every model of every other peer is still listed.
C15_PeerIsolation ==
  \A r \in RequestIds :
    (req[r].pc = "done" /\ req[r].endpoint_type = "GET /v1/models") =>
      \A i \in 1 .. Len(peers) :
        IF PeerFailed(i, req[r].up)
          THEN \A k \in 1 .. Len(req[r].models) :
                 req[r].models[k].owned_by # << "remote", peers[i].host >>
          ELSE \A n \in 1 .. Len(peer_models[i]) :
                 TextCapable(peer_models[i][n].listener.protocol) =>
                   \E k \in 1 .. Len(req[r].models) :
                     req[r].models[k].id = peer_models[i][n].model_name

\* No connection is counted.
NothingCounted == \A url \in DOMAIN active_connections : active_connections[url] = 0

\* C21 (as claimed): once the response to a forwarded request is produced, its
\* status is the backend's whenever the backend answered, and 500 with a JSON
\* error body when the POST raised a transport error; the counter is
\* decremented by then.
C21_StatusMirrored ==
  \A r \in RequestIds :
    (req[r].upstream # << >> /\ req[r].resp # << >>) =>
      LET out  == req[r].upstream[1]
          resp == req[r].resp[1]
      IN  /\ NothingCounted
          /\ IF out.kind = "response"
               THEN resp.status = out.status /\ resp.error = << >>
               ELSE resp.status = 500 /\ resp.body = "json" /\ resp.error # << >>

\* C21 (amended): the backend's status is passed on unchanged for a streamed
\* response, for a buffered response whose content type is not
\* application/json, and for a buffered application/json response whose body
\* parses; a transport error, and a buffered application/json body that does
\* not parse, are answered 500 with a JSON error body; the counter is
\* decremented by the time the response is produced.
C21_Status ==
  \A r \in RequestIds :
    (req[r].upstream # << >> /\ req[r].resp # << >>) =>
      LET out      == req[r].upstream[1]
          resp     == req[r].resp[1]
          streamed == "stream" \in DOMAIN req[r].data /\ req[r].data["stream"]
          mirrored == /\ out.kind = "response"
                      /\ (streamed \/ out.content_type # "application/json" \/ out.json_ok)
      IN  /\ NothingCounted
          /\ IF mirrored
               THEN resp.status = out.status /\ resp.error = << >>
               ELSE resp.status = 500 /\ resp.body = "json" /\ resp.error # << >>

\* A streamed response of a backend that answered 503 has been relayed to its
\* end with status 503.
C21_Witness ==
  \E r \in RequestIds :
    /\ req[r].pc = "done" /\ req[r].ended = "upstream_close"
    /\ req[r].upstream # << >> /\ req[r].upstream[1].status = 503
    /\ req[r].resp[1].status = 503 /\ req[r].resp[1].body = "stream"

\* The registry entry is a candidate for a request for `requested` at endpoint
\* class E.
Candidate(entry, requested, E) ==
  /\ entry.model_name = requested
  /\ entry.listener.protocol \in DOMAIN PROTOCOLS
  /\ PROTOCOLS[entry.listener.protocol][E] # None

\* What the handler retains of a candidate.
Retained(entry, E) ==
  [ model_name |-> entry.model_name, model_id |-> entry.model_id,
    protocol |-> entry.listener.protocol,
    url |-> << "http", entry.listener.host, entry.listener.port,
               PROTOCOLS[entry.listener.protocol][E] >> ]

\* The payload with the sampler name translated by the protocol's sampler map
\* (image endpoints only) and `model` replaced by the backend's model_id.
Adapted(data, E, instance) ==
  [ key \in DOMAIN data \cup {"model"} |->
      IF key = "model" THEN instance.model_id
      ELSE IF /\ key = "sampler_name" /\ E \in ImageEndpoints
              /\ "image_sampler_map" \in DOMAIN PROTOCOLS[instance.protocol]
              /\ data[key] \in DOMAIN PROTOCOLS[instance.protocol]["image_sampler_map"]
        THEN PROTOCOLS[instance.protocol]["image_sampler_map"][data[key]]
      ELSE data[key] ]

\* C22: the instances a request is routed among are exactly the available
\* entries whose model_name is the requested model and whose protocol has a
\* path for the endpoint class, in registry order; the instance selected is one
\* of them, its URL is http://host:port followed by that path, and what is
\* posted is the payload with `model` replaced by the instance's model_id and
\* the sampler translated by the instance's protocol.
C22_Candidacy ==
  \A r \in RequestIds :
    req[r].pc \in { "await_lock", "selected", "posted" } =>
      LET E          == req[r].endpoint_type
          available  == get_available_models(TRUE, TRUE, req[r].up)
          candidates == { k \in 1 .. Len(available) : Candidate(available[k], req[r].data["model"], E) }
          instances  == req[r].model_instances
      IN  /\ Len(instances) = Cardinality(candidates)
          /\ \A k \in candidates :
               instances[Cardinality({ j \in candidates : j <= k })] = Retained(available[k], E)
          /\ req[r].pc \in { "selected", "posted" } =>
               \E k \in candidates : req[r].selected[1] = Retained(available[k], E)
          /\ req[r].pc = "posted" =>
               req[r].sent[1] = Adapted(req[r].data, E, req[r].selected[1])

\* An a1111 instance of "foo" was selected for a txt2img request while a peer
\* advertises an openai "foo", and the payload was posted with the backend's
\* model_id and the a1111 sampler name.
C22_Witness ==
  \E r \in RequestIds :
    /\ req[r].pc = "posted" /\ req[r].endpoint_type = "txt2img"
    /\ req[r].up = {1}
    /\ Len(req[r].model_instances) = 1
    /\ req[r].selected[1].protocol = "a1111"
    /\ req[r].selected[1].url = << "http", "127.0.0.1", 50004, "/sdapi/v1/txt2img" >>
    /\ req[r].data["model"] = "foo"
    /\ req[r].sent[1]["model"] = "/models/foo.kcppt"
    /\ req[r].sent[1]["sampler_name"] = "k_euler"

\* The node runs an instance of the requested model that speaks the openai
\* protocol and serves the endpoint class.
LocalOpenAI(model, E) ==
  \E k \in 1 .. Len(running_models) :
    /\ LocalEntry(running_models[k]).model_name = model
    /\ LocalEntry(running_models[k]).listener.protocol = "openai"
    /\ PROTOCOLS["openai"][E] # None

\* C28 (as claimed): an entry behind a protocol that is no key of PROTOCOLS
\* is skipped: no request is answered with the 500 of a failed protocol
\* lookup, and a request for a model that also has a local openai instance
\* serving the endpoint is forwarded.
C28_UnknownProtocolSkipped ==
  \A r \in RequestIds :
    (/\ req[r].pc = "done" /\ req[r].endpoint_type \in EndpointTypes /\ req[r].is_json
     /\ "model" \in DOMAIN req[r].data) =>
      /\ RespError(r) # << "Unexpected error", "KeyError", req[r].endpoint_type >>
      /\ LocalOpenAI(req[r].data["model"], req[r].endpoint_type) => req[r].upstream # << >>

(***************************************************************************)
(* zk.py: get_available_models (lines 292-351) as its callers see it: a    *)
(* node whose peers' answers change between the calls.                     *)
(***************************************************************************)
\* A call of get_available_models; `up` is the set of peers whose fetch and
\* parse succeed during this call.
GetAvailableModels(local_models, remote_models, up) ==
  /\ registry_call' =
       << [ local_models |-> local_models, remote_models |-> remote_models, up |-> up,
            running_models |-> running_models, peer_models |-> peer_models,
            result |-> get_available_models(local_models, remote_models, up) ] >>
  /\ UNCHANGED << registryVars, proxyVars, supervisorVars, statusVars, environmentVars, logVars,
                  shutdownVars, launchVars, stop_model >>

\* What a peer may answer to GET /api/running_models.
PeerAnswers ==
  { << >>,
    << PeerModel("foo", "/b/foo.gguf", "openai", 50010) >>,
    << PeerModel("bar", "/c/bar.gguf", "openai", 50020),
       PeerModel("foo", "/c/foo.gguf", "openai", 50021) >> }

\* Peer i launches or stops models: its answer changes.
PeerListChanges(i, answer) ==
  /\ peer_models[i] # answer
  /\ peer_models' = [ peer_models EXCEPT ![i] = answer ]
  /\ UNCHANGED << catalog, rm, running_models, peers, proxyVars, supervisorVars, controlVars >>

NextRegistry ==
  \/ \E local_models \in BOOLEAN, remote_models \in BOOLEAN, up \in SUBSET (1 .. Len(peers)) :
       GetAvailableModels(local_models, remote_models, up)
  \/ \E i \in 1 .. Len(peers), answer \in PeerAnswers : PeerListChanges(i, answer)

InitRegistry ==
  /\ \E g \in Registries :
       /\ catalog = g.catalog
       /\ rm = g.rm
       /\ running_models = g.running_models
       /\ peers = g.peers
       /\ peer_models = g.peer_models
  /\ active_connections = << >>
  /\ req = << >>
  /\ menu = {}
  /\ InitSupervisor
  /\ InitControl

SpecRegistry == InitRegistry /\ [][NextRegistry]_vars

(***************************************************************************)
(* Properties of the registry (specification SpecRegistry).                *)
(***************************************************************************)
\* The peers whose answer is in the result of the call: those that answered.
Contributing(call) == IF call.remote_models THEN call.up ELSE {}

\* The number of entries the peers before peer i contribute.
RECURSIVE EntriesBefore(_, _)
EntriesBefore(call, i) ==
  IF i <= 1 THEN 0
  ELSE EntriesBefore(call, i - 1)
       + (IF i - 1 \in Contributing(call) THEN Len(call.peer_models[i - 1]) ELSE 0)

\* Every peer that answered the call answered a list of well-formed entries.
PeersWellFormed(call) ==
  \A i \in Contributing(call) :
    \A n \in 1 .. Len(call.peer_models[i]) : "listener" \in DOMAIN call.peer_models[i][n]

\* C23: the list a call returns is computed from the running list and the
\* peers' answers of that call: first one entry per local RunningModel, in
\* list order, with source "local" and host 127.0.0.1 (when local models are
\* asked for), then the entries of every peer that answered, in the order of
\* the peer configuration and of the peer's answer, each with its host
\* replaced by the peer's and source "remote:<host>" (when remote models are
\* asked for); nothing is dropped for having the name of another entry, and
\* the list is empty when neither is asked for.
C23_Merge ==
  (registry_call # << >> /\ PeersWellFormed(registry_call[1])) =>
    LET call   == registry_call[1]
        locals == IF call.local_models THEN Len(call.running_models) ELSE 0
    IN  /\ Len(call.result) = locals + EntriesBefore(call, Len(peers) + 1)
        /\ \A k \in 1 .. locals :
             call.result[k] =
               [ model_name |-> catalog[rm[call.running_models[k]].model].model_name,
                 model_id   |-> catalog[rm[call.running_models[k]].model].model_id,
                 listener   |-> [ protocol |-> rm[call.running_models[k]].listener.protocol,
                                  host |-> "127.0.0.1",
                                  port |-> rm[call.running_models[k]].listener.port ],
                 source     |-> << "local" >> ]
        /\ \A i \in Contributing(call) :
             \A n \in 1 .. Len(call.peer_models[i]) :
               LET entry  == call.result[locals + EntriesBefore(call, i) + n]
                   answer == call.peer_models[i][n]
               IN  /\ entry.model_name = answer.model_name
                   /\ entry.model_id = answer.model_id
                   /\ entry.listener =
                        [ protocol |-> answer.listener.protocol, host |-> peers[i].host,
                          port |-> answer.listener.port ]
                   /\ entry.source = << "remote", peers[i].host >>
        /\ (~ call.local_models /\ ~ call.remote_models) => call.result = << >>

\* A call returned the local "foo" followed by two peers' entries, among them
\* a second "foo" and two "bar", after the second peer's answer had changed.
C23_Witness ==
  /\ registry_call # << >>
  /\ registry_call[1].local_models /\ registry_call[1].remote_models
  /\ registry_call[1].up = {1, 2}
  /\ Len(registry_call[1].running_models) = 1
  /\ Len(registry_call[1].result) = 5
  /\ registry_call[1].result[1].model_name = "foo"
  /\ registry_call[1].result[1].source = << "local" >>
  /\ registry_call[1].result[2].model_name = "foo"
  /\ registry_call[1].result[2].source = << "remote", "hostB" >>
  /\ registry_call[1].result[3].model_name = "bar"
  /\ registry_call[1].result[4].model_name = "bar"
  /\ registry_call[1].result[4].source = << "remote", "hostC" >>
  /\ registry_call[1].result[5].listener.host = "hostC"
  /\ registry_call[1].peer_models[2] \in PeerAnswers

(***************************************************************************)
(* Federation: this node and its peers run the same program.  Of a peer    *)
(* the model keeps what it runs (peer_models[i], the entries with source   *)
(* "local" and host 127.0.0.1 it computes for itself) and, here, its own   *)
(* peer configuration (peers[i].peers, a list of hosts).                   *)
(***************************************************************************)
MaxHops == 3             \* nested /api/running_models requests followed

ThisHost == "hostA"

PeerIndex(host) == CHOOSE i \in 1 .. Len(peers) : peers[i].host = host

\* get_available_models(local_models=True, remote_models=False) on a node.
NodeLocal(host) ==
  IF host = ThisHost THEN get_available_models(TRUE, FALSE, {})
  ELSE peer_models[PeerIndex(host)]

\* self.peers of a node, as hosts.
NodePeers(host) ==
  IF host = ThisHost THEN [ i \in 1 .. Len(peers) |-> peers[i].host ]
  ELSE peers[PeerIndex(host)].peers

\* Mutant of ServesRemoteModels: a node also serves what its peers run.
ServesRemoteModelsToo == TRUE

\* zk.py line 289: the remote_models argument of handle_get_running_models.
ServesRemoteModels == FALSE

\* get_available_models on a node, the GET /api/running_models requests to its
\* peers being served by handle_get_running_models of the peers that are up.
RECURSIVE NodeAvailable(_, _, _, _, _)
NodeAvailable(host, local_models, remote_models, up, hops) ==
  (IF local_models THEN NodeLocal(host) ELSE << >>)
  \o
  (IF remote_models /\ hops > 0
     THEN Concat([ i \in 1 .. Len(NodePeers(host)) |->
            LET peer   == NodePeers(host)[i]
                served == NodeAvailable(peer, TRUE, ServesRemoteModels, up, hops - 1)
            IN  IF peer \in up
                  THEN [ k \in 1 .. Len(served) |-> RemoteEntry([ host |-> peer ], served[k]) ]
                  ELSE << >> ])
     ELSE << >>)

\* The GET /api/running_models requests that call causes, in order.
RECURSIVE NodeRequests(_, _, _, _)
NodeRequests(host, remote_models, up, hops) ==
  IF remote_models /\ hops > 0
    THEN Concat([ i \in 1 .. Len(NodePeers(host)) |->
           LET peer == NodePeers(host)[i]
           IN  << [ from |-> host, to |-> peer ] >>
               \o (IF peer \in up
                     THEN NodeRequests(peer, ServesRemoteModels, up, hops - 1)
                     ELSE << >>) ])
    ELSE << >>

Hosts == { ThisHost } \cup { peers[i].host : i \in 1 .. Len(peers) }

\* A node computes its registry (as its proxy and its dashboard do).
NodeGetAvailableModels(host, up) ==
  /\ registry_call' =
       << [ node |-> host, up |-> up,
            result |-> NodeAvailable(host, TRUE, TRUE, up, MaxHops),
            requests |-> NodeRequests(host, TRUE, up, MaxHops),
            running |-> [ h \in Hosts |-> NodeLocal(h) ] ] >>
  /\ UNCHANGED << registryVars, proxyVars, supervisorVars, statusVars, environmentVars, logVars,
                  shutdownVars, launchVars, stop_model >>

NextFederation ==
  \/ \E host \in Hosts, up \in SUBSET Hosts : NodeGetAvailableModels(host, up)
  \/ \E i \in 1 .. Len(peers), answer \in PeerAnswers : PeerListChanges(i, answer)

\* hostA runs "foo" and lists hostB and hostC as peers; hostB lists hostA and
\* hostC; hostC lists hostB.
InitFederation ==
  /\ catalog = << Model("zoo", "/models/foo.gguf", "gguf", "foo") >>
  /\ rm = << RunningModel(1, "openai", 50001, 101) >>
  /\ running_models = << 1 >>
  /\ peers = << [ host |-> "hostB", port |-> 3333, peers |-> << "hostA", "hostC" >> ],
                [ host |-> "hostC", port |-> 3333, peers |-> << "hostB" >> ] >>
  /\ peer_models = << << PeerModel("foo", "/b/foo.gguf", "openai", 50010) >>,
                      << PeerModel("bar", "/c/bar.gguf", "openai", 50020) >> >>
  /\ active_connections = << >>
  /\ req = << >>
  /\ menu = {}
  /\ InitSupervisor
  /\ InitControl

SpecFederation == InitFederation /\ [][NextFederation]_vars

(***************************************************************************)
(* Properties of the federation (specification SpecFederation).            *)
(***************************************************************************)
\* Entry `entry` of a registry is the entry `served` that node `host` computes
\* for a model of its own running list (`running`, at the time of the call),
\* relabelled.
RunsOn(entry, host, running) ==
  \E k \in 1 .. Len(running[host]) :
    LET served == running[host][k]
    IN  /\ entry.model_name = served.model_name
        /\ entry.model_id = served.model_id
        /\ entry.listener = [ protocol |-> served.listener.protocol, host |-> host,
                              port |-> served.listener.port ]

\* C29: whatever node computes its registry, every GET /api/running_models
\* request this causes is sent by that node itself (serving one sends none,
\* so two nodes that list each other do not recurse), and every entry with
\* source "remote:H" is an entry of a model of H's own running list.
C29_NotTransitive ==
  registry_call # << >> =>
    LET call == registry_call[1]
    IN  /\ \A n \in 1 .. Len(call.requests) : call.requests[n].from = call.node
        /\ Len(call.requests) = Len(NodePeers(call.node))
        /\ \A k \in 1 .. Len(call.result) :
             \/ call.result[k].source = << "local" >> /\ k <= Len(call.running[call.node])
             \/ \E host \in Hosts \ { call.node } :
                  /\ call.result[k].source = << "remote", host >>
                  /\ host \in call.up
                  /\ \E i \in 1 .. Len(NodePeers(call.node)) : NodePeers(call.node)[i] = host
                  /\ RunsOn(call.result[k], host, call.running)

\* hostB, which lists hostA and hostC while hostA lists hostB, has computed
\* its registry with every node up: hostA's "foo" and hostC's models are in it
\* as remote entries, and hostB sent two requests.
C29_Witness ==
  /\ registry_call # << >>
  /\ registry_call[1].node = "hostB"
  /\ registry_call[1].up = Hosts
  /\ Len(registry_call[1].requests) = 2
  /\ Len(registry_call[1].running["hostB"]) = 1
  /\ Len(registry_call[1].running["hostC"]) = 2
  /\ Len(registry_call[1].result) = 4
  /\ registry_call[1].result[2].source = << "remote", "hostA" >>
  /\ registry_call[1].result[2].model_id = "/models/foo.gguf"
  /\ registry_call[1].result[4].source = << "remote", "hostC" >>

(***************************************************************************)
(* base.py: RunningModel.stop (lines 263-282) and the child process group. *)
(*                                                                         *)
(* os[i] is "live" while the root child runs, "exited" once it has exited  *)
(* but the group can still be signalled (the root is a zombie, or other    *)
(* members live on), and "gone" when the group no longer exists; "foreign" *)
(* is a live group this process may not signal (its members changed user). *)
(***************************************************************************)
\* os.killpg(pgid, sig): TypeError for a None pgid, ProcessLookupError for a
\* group that does not exist, PermissionError for one it may not signal.
KillpgOutcome(pgid, group) ==
  IF pgid = << >> THEN "TypeError"
  ELSE IF group = "gone" THEN "ProcessLookupError"
  ELSE IF group = "foreign" THEN "PermissionError"
  ELSE "sent"

\* Mutant of WaitOutcome: the wait always times out.
WaitAlwaysTimesOut(group) == "TimeoutExpired"

\* self.process.wait(timeout=5): returns once the root child has exited, raises
\* TimeoutExpired when it still runs after 5 seconds.
WaitOutcome(group) == IF group = "live" THEN "TimeoutExpired" ELSE "returned"

\* Mutant of ClearProcess: self.process keeps the Popen object.
ClearPgidOnly(r) == [ r EXCEPT !.pgid = << >> ]

\* lines 276-277
ClearProcess(r) == [ r EXCEPT !.process = FALSE, !.pgid = << >> ]

Signal(i, k, sig, outcome) == [ rm |-> i, call |-> k, sig |-> sig, outcome |-> outcome ]

IdleStopper == [ pc |-> "idle", call |-> 0, rm |-> 0 ]

Result(k, result) == [ calls EXCEPT ![k].result = result ]

\* lines 279-282 for a call that does not join: the thread is dropped and the
\* call returns; a call that joins blocks in join(timeout=1) first.
Joins(r, no_wait) == r.log_thread /\ ~ no_wait

DropThread(r) == [ r EXCEPT !.log_thread = FALSE ]

\* What entering stop() does to the object, the signals sent and the record of
\* calls.  An exception of killpg other than ProcessLookupError leaves stop().
StopEnters(c, i, no_wait) ==
  /\ stopper[c].pc = "idle"
  /\ Len(calls) < MaxStops
  /\ LET k       == Len(calls) + 1
         started == Append(calls, [ rm |-> i, no_wait |-> no_wait, result |-> "running",
                                    after_return |-> \E j \in 1 .. Len(calls) :
                                        calls[j].rm = i /\ calls[j].result = "returned" ])
         stopped == [ rm[i] EXCEPT !.running = FALSE ]
         outcome == KillpgOutcome(rm[i].pgid, os[i])
         \* the state of the object when the method reaches line 279
         after   == IF ~ rm[i].process THEN rm[i] ELSE ClearProcess(stopped)
     IN  IF rm[i].process /\ outcome \in {"TypeError", "PermissionError"}
           THEN /\ rm' = [ rm EXCEPT ![i] = stopped ]
                /\ signals' = Append(signals, Signal(i, k, "SIGTERM", outcome))
                /\ calls' = [ started EXCEPT ![k].result = "raised" ]
                /\ UNCHANGED stopper
         ELSE IF rm[i].process /\ outcome = "sent" /\ ~ no_wait
           THEN /\ rm' = [ rm EXCEPT ![i] = stopped ]
                /\ signals' = Append(signals, Signal(i, k, "SIGTERM", outcome))
                /\ calls' = started
                /\ stopper' = [ stopper EXCEPT ![c] = [ pc |-> "waiting", call |-> k, rm |-> i ] ]
         ELSE /\ signals' = IF rm[i].process
                              THEN Append(signals, Signal(i, k, "SIGTERM", outcome))
                              ELSE signals
              /\ IF Joins(after, no_wait)
                   THEN /\ rm' = [ rm EXCEPT ![i] = after ]
                        /\ calls' = started
                        /\ stopper' = [ stopper EXCEPT ![c] = [ pc |-> "joining", call |-> k, rm |-> i ] ]
                   ELSE /\ rm' = [ rm EXCEPT ![i] = DropThread(after) ]
                        /\ calls' = [ started EXCEPT ![k].result = "returned" ]
                        /\ UNCHANGED stopper

\* A caller enters stop(): lines 265-270 up to the first blocking call, and the
\* rest of the method when nothing blocks.
StopBegin(c, i, no_wait) ==
  /\ StopEnters(c, i, no_wait)
  /\ UNCHANGED << catalog, running_models, peers, peer_models, proxyVars, controlVars, os >>

\* What the end of the wait of line 270 does to the object, the child, the
\* signals sent and the record of calls.
StopWaits(c) ==
  /\ stopper[c].pc = "waiting"
  /\ LET i == stopper[c].rm
         k == stopper[c].call
         timeout == WaitOutcome(os[i]) = "TimeoutExpired"
         outcome == KillpgOutcome(rm[i].pgid, os[i])
         after   == ClearProcess(rm[i])
     IN  IF timeout /\ outcome # "sent"
           THEN /\ signals' = Append(signals, Signal(i, k, "SIGKILL", outcome))
                /\ calls' = Result(k, "raised")
                /\ stopper' = [ stopper EXCEPT ![c] = IdleStopper ]
                /\ UNCHANGED << rm, os >>
           ELSE /\ signals' = IF timeout THEN Append(signals, Signal(i, k, "SIGKILL", outcome))
                                         ELSE signals
                /\ os' = IF timeout THEN [ os EXCEPT ![i] = "exited" ] ELSE os
                /\ IF Joins(after, FALSE)
                     THEN /\ rm' = [ rm EXCEPT ![i] = after ]
                          /\ stopper' = [ stopper EXCEPT ![c].pc = "joining" ]
                          /\ UNCHANGED calls
                     ELSE /\ rm' = [ rm EXCEPT ![i] = DropThread(after) ]
                          /\ calls' = Result(k, "returned")
                          /\ stopper' = [ stopper EXCEPT ![c] = IdleStopper ]

\* The wait of line 270 ends: the child exited within the 5 seconds (lines
\* 276-282 follow), or TimeoutExpired is raised and line 273 sends SIGKILL.
\* An exception raised inside the except clause of line 271 leaves stop().
StopWaitEnds(c) ==
  /\ StopWaits(c)
  /\ UNCHANGED << catalog, running_models, peers, peer_models, proxyVars, controlVars >>

\* What the return of line 281 does: line 282 and the end of stop().
StopJoins(c) ==
  /\ stopper[c].pc = "joining"
  /\ rm' = [ rm EXCEPT ![stopper[c].rm] = DropThread(@) ]
  /\ calls' = Result(stopper[c].call, "returned")
  /\ stopper' = [ stopper EXCEPT ![c] = IdleStopper ]
  /\ UNCHANGED << os, signals >>

\* line 281 returns (the reader ended, or the second has passed); line 282.
StopJoinEnds(c) ==
  /\ StopJoins(c)
  /\ UNCHANGED << catalog, running_models, peers, peer_models, proxyVars, controlVars >>

\* The exited root has been reaped and no other member of the group is left.
GroupGone(i) ==
  /\ os[i] = "exited"
  /\ os' = [ os EXCEPT ![i] = "gone" ]
  /\ UNCHANGED << registryVars, proxyVars, controlVars, signals, calls, stopper >>

(***************************************************************************)
(* base.py: RunningModel.status (lines 221-229) and _is_ready (231-253).   *)
(* The probe of line 246 is the one blocking call: a status() call is the  *)
(* step up to it and the step from its result to the return.               *)
(***************************************************************************)
\* What requests.get(..., timeout=2) can do: a response with a status code, or
\* a requests.RequestException (refused, timed out, ...).
ProbeOutcomes ==
  { [ kind |-> "response", status_code |-> st ] : st \in {200, 404, 500} }
  \cup { [ kind |-> "RequestException", status_code |-> 0 ] }

\* line 239: PROTOCOLS.get(protocol, {})
ProtocolDef(protocol) == IF protocol \in DOMAIN PROTOCOLS THEN PROTOCOLS[protocol] ELSE << >>

\* line 241: protocol_def.get('health_check')
HealthCheck(protocol) == Get(ProtocolDef(protocol), "health_check")

\* line 242: protocol_def.get('health_status', 200)
HealthStatus(protocol) ==
  IF "health_status" \in DOMAIN ProtocolDef(protocol)
    THEN ProtocolDef(protocol)["health_status"] ELSE 200

\* Mutant of ProbeReady: any response at all counts as ready.
ProbeReadyOnAnyResponse(protocol, out) == out.kind = "response"

\* lines 250-253: the probe's verdict.
ProbeReady(protocol, out) ==
  out.kind = "response" /\ out.status_code = HealthStatus(protocol)

\* Mutant of Running: a held process counts as running, exited or not.
RunningWhileHeld(r, group) == r.process

\* line 227: self.process is not None and self.process.poll() is None
Running(r, group) == r.process /\ group = "live"

StatusResult(i, call, running, ready, probed, out) ==
  << [ rm |-> i, running |-> running, ready |-> ready, probed |-> probed, outcome |-> out,
       held |-> call.held, live |-> call.live, after_stop |-> call.after_stop ] >>

NoProbe == [ kind |-> "none", status_code |-> 0 ]

\* status() is called: line 228, and _is_ready up to the probe.  poll() is
\* None exactly while the root child has not exited.
StatusBegin(i) ==
  /\ status_call.pc = "idle"
  /\ LET call == [ pc |-> "probing", rm |-> i, held |-> rm[i].process, live |-> os[i] = "live",
                   after_stop |-> \E j \in 1 .. Len(calls) :
                                     calls[j].rm = i /\ calls[j].result = "returned" ]
         running == Running(rm[i], os[i])
     IN  IF running /\ Truthy(HealthCheck(rm[i].listener.protocol))
           THEN /\ status_call' = call
                /\ UNCHANGED last_status
           ELSE /\ last_status' = StatusResult(i, call, running, FALSE, FALSE, NoProbe)
                /\ UNCHANGED status_call
  /\ UNCHANGED << registryVars, proxyVars, supervisorVars, environmentVars, logVars, shutdownVars,
                  launchVars, dashboardVars >>

\* The probe ends and status() returns {"running": True, "ready": ...}.
StatusProbeEnds ==
  /\ status_call.pc = "probing"
  /\ \E out \in ProbeOutcomes :
       last_status' = StatusResult(status_call.rm, status_call, TRUE,
                                   ProbeReady(rm[status_call.rm].listener.protocol, out), TRUE, out)
  /\ status_call' = IdleStatusCall
  /\ UNCHANGED << registryVars, proxyVars, supervisorVars, environmentVars, logVars, shutdownVars,
                  launchVars, dashboardVars >>

NextRunningModel ==
  \/ \E c \in DOMAIN stopper, i \in DOMAIN rm, no_wait \in BOOLEAN : StopBegin(c, i, no_wait)
  \/ \E c \in DOMAIN stopper : StopWaitEnds(c)
  \/ \E c \in DOMAIN stopper : StopJoinEnds(c)
  \/ \E i \in DOMAIN rm : ChildExit(i)
  \/ \E i \in DOMAIN rm : GroupGone(i)
  \/ \E i \in DOMAIN rm : StatusBegin(i)
  \/ StatusProbeEnds

\* The protocols a RunningModel's listener can name: the ones the runtimes of
\* runtime.py set, and the 'http' that handle_launch_model (zk.py:249) gives a
\* Listener before the runtime overwrites it.
ListenerProtocols == {"openai", "sd-server", "http"}

\* One RunningModel right after its construction, and the callers of stop().
InitRunningModel ==
  /\ catalog = << Model("zoo", "/models/foo.gguf", "gguf", "foo") >>
  /\ \E protocol \in ListenerProtocols : rm = << RunningModel(1, protocol, 50001, 101) >>
  /\ running_models = << 1 >>
  /\ peers = << >>
  /\ peer_models = << >>
  /\ active_connections = << >>
  /\ req = << >>
  /\ menu = {}
  /\ os = [ i \in DOMAIN rm |-> "live" ]
  /\ signals = << >>
  /\ calls = << >>
  /\ stopper = [ c \in 1 .. NumCallers |-> IdleStopper ]
  /\ InitControl

SpecRunningModel == InitRunningModel /\ [][NextRunningModel]_vars

(***************************************************************************)
(* Properties of RunningModel.stop (specification SpecRunningModel).       *)
(***************************************************************************)
SentBy(k, sig) ==
  \E n \in 1 .. Len(signals) :
    signals[n].call = k /\ signals[n].sig = sig /\ signals[n].outcome = "sent"

\* SIGKILL comes from a call that waits and that sent SIGTERM before; a
\* caller blocked in the wait has sent SIGTERM; a no_wait call never blocks,
\* neither in the wait nor in the join.
StopOrder ==
  /\ \A n \in 1 .. Len(signals) :
       signals[n].sig = "SIGKILL" =>
         /\ ~ calls[signals[n].call].no_wait
         /\ \E m \in 1 .. (n - 1) :
              /\ signals[m].call = signals[n].call
              /\ signals[m].sig = "SIGTERM"
              /\ signals[m].outcome = "sent"
  /\ \A c \in DOMAIN stopper :
       /\ stopper[c].pc = "waiting" => SentBy(stopper[c].call, "SIGTERM")
       /\ stopper[c].pc \in {"waiting", "joining"} => ~ calls[stopper[c].call].no_wait

\* SIGKILL is sent by a caller leaving the wait while the child still runs
\* (the wait timed out); a wait that ends because the child exited sends
\* nothing.
KillOnlyOnTimeout ==
  /\ (Len(signals') > Len(signals) /\ signals'[Len(signals')].sig = "SIGKILL") =>
       LET e == signals'[Len(signals')]
       IN  /\ os[e.rm] = "live"
           /\ \E c \in DOMAIN stopper : stopper[c].pc = "waiting" /\ stopper[c].call = e.call
  /\ \A c \in DOMAIN stopper :
       (stopper[c].pc = "waiting" /\ stopper'[c].pc # "waiting" /\ os[stopper[c].rm] # "live")
         => signals' = signals

\* C8: stop() sends SIGTERM to the group first, then waits for the root child,
\* and sends SIGKILL only when that wait timed out: never before SIGTERM,
\* never when the child exited within the wait, never from stop(no_wait=true),
\* which skips the wait and the join.
C8_TermThenKill == []StopOrder /\ [][KillOnlyOnTimeout]_vars

\* A stop() whose wait timed out has sent SIGTERM and then SIGKILL, and a
\* no_wait stop() has returned.
C8_Witness ==
  /\ \E k \in 1 .. Len(calls) : SentBy(k, "SIGTERM") /\ SentBy(k, "SIGKILL")
  /\ \E k \in 1 .. Len(calls) : calls[k].no_wait /\ calls[k].result = "returned"

\* C9: a stop() entered after an earlier stop() of the same RunningModel has
\* returned raises nothing, signals nothing and changes nothing.
SecondStopIsNoOp ==
  (Len(calls') = Len(calls) + 1 /\ calls'[Len(calls')].after_return) =>
     /\ calls'[Len(calls')].result = "returned"
     /\ rm' = rm
     /\ signals' = signals
     /\ os' = os
     /\ stopper' = stopper

C9_StopIdempotent == [][SecondStopIsNoOp]_vars

\* A stop() entered after an earlier stop() had returned has itself returned,
\* the first stop() of the run having sent SIGTERM to the group.
C9_Witness ==
  \E k \in 2 .. Len(calls) :
    /\ calls[k].after_return
    /\ calls[k].result = "returned"
    /\ SentBy(1, "SIGTERM")

\* C10 (as claimed): a RunningModel holds a process-group id if and only if
\* its child is live.
C10_PgidIffLive ==
  \A i \in DOMAIN rm : (rm[i].pgid # << >>) <=> (os[i] = "live")

(***************************************************************************)
(* main.py: signal_handler (lines 26-29) and zk.py: ZooKeeper.shutdown     *)
(* (lines 131-140).  The handler's steps are taken one by one; between     *)
(* them only the children change state.                                    *)
(***************************************************************************)
\* Mutant of AfterStop: an error while stopping one model ends the loop.
AfterStopAbort(next, last, raised) == IF raised THEN last + 1 ELSE next + 1

\* lines 134-138: the try/except inside the loop; the loop goes on to the next
\* model whether or not stop() raised.
AfterStop(next, last, raised) == next + 1

\* SIGINT or SIGTERM arrives: main.py lines 27-28, zk.py lines 132-133.
signal_handler ==
  /\ handler.pc = "idle"
  /\ handler' = [ pc |-> "stopping", next |-> 1, models |-> running_models ]
  /\ UNCHANGED << registryVars, proxyVars, supervisorVars, statusVars, environmentVars,
                  logVars, launchVars, dashboardVars, http_server >>

\* zk.py lines 133-138: stop(no_wait=True) on the next model of the list.
ShutdownStop ==
  /\ handler.pc = "stopping"
  /\ handler.next <= Len(running_models)
  /\ StopEnters(1, running_models[handler.next], TRUE)
  /\ handler' = [ handler EXCEPT !.next = AfterStop(handler.next, Len(running_models),
                                                     calls'[Len(calls')].result = "raised") ]
  /\ UNCHANGED << catalog, running_models, peers, peer_models, proxyVars, os, statusVars,
                  environmentVars, logVars, launchVars, dashboardVars, http_server >>

\* zk.py line 139: self.running_models.clear()
ShutdownClear ==
  /\ handler.pc = "stopping"
  /\ handler.next > Len(running_models)
  /\ running_models' = << >>
  /\ handler' = [ handler EXCEPT !.pc = "http_stop" ]
  /\ UNCHANGED << catalog, rm, peers, peer_models, proxyVars, supervisorVars, statusVars,
                  environmentVars, logVars, launchVars, dashboardVars, http_server >>

\* main.py line 29: http_server.stop()
HttpServerStop ==
  /\ handler.pc = "http_stop"
  /\ http_server' = "stopped"
  /\ handler' = [ handler EXCEPT !.pc = "done" ]
  /\ UNCHANGED << registryVars, proxyVars, supervisorVars, statusVars, environmentVars, logVars,
                  launchVars, dashboardVars >>

NextShutdown ==
  \/ signal_handler
  \/ ShutdownStop
  \/ ShutdownClear
  \/ HttpServerStop
  \/ \E i \in DOMAIN rm : ChildExit(i)
  \/ \E i \in DOMAIN rm : GroupGone(i)

\* Three running models; each child runs, and this process may or may not be
\* allowed to signal its group.
InitShutdown ==
  /\ catalog = << Model("zoo", "/models/foo.gguf", "gguf", "foo"),
                  Model("zoo", "/models/sd.kcppt", "kcppt", "sd") >>
  /\ rm = << RunningModel(1, "openai", 50001, 101),
             RunningModel(1, "openai", 50002, 102),
             RunningModel(2, "sd-server", 50003, 103) >>
  /\ running_models = << 1, 2, 3 >>
  /\ peers = << >>
  /\ peer_models = << >>
  /\ active_connections = << >>
  /\ req = << >>
  /\ menu = {}
  /\ os \in [ DOMAIN rm -> {"live", "foreign"} ]
  /\ signals = << >>
  /\ calls = << >>
  /\ stopper = [ c \in {1} |-> IdleStopper ]
  /\ InitControl

SpecShutdown == InitShutdown /\ [][NextShutdown]_vars

\* stop(no_wait=True) has been invoked on RunningModel i.
StopInvoked(i) == \E k \in 1 .. Len(calls) : calls[k].rm = i /\ calls[k].no_wait

AllStopInvoked == \A n \in 1 .. Len(handler.models) : StopInvoked(handler.models[n])

\* C17: on shutdown, stop(no_wait=True) is invoked on every RunningModel of
\* the running list, an error in one not preventing the rest; after that the
\* list is empty, and only then is the HTTP server stopped.
C17_Shutdown ==
  /\ handler.pc \in {"http_stop", "done"} => (AllStopInvoked /\ running_models = << >>)
  /\ http_server = "stopped" => (AllStopInvoked /\ running_models = << >>)
  /\ running_models = << >> => AllStopInvoked
  /\ \A k \in 1 .. Len(calls) : calls[k].no_wait /\ calls[k].result # "running"
  /\ \A n \in 1 .. Len(signals) : signals[n].sig = "SIGTERM"

\* The server has been stopped after a shutdown in which stopping the first
\* model raised and the two after it were stopped all the same.
C17_Witness ==
  /\ http_server = "stopped"
  /\ Len(handler.models) = 3
  /\ Len(calls) = 3
  /\ calls[1].result = "raised"
  /\ calls[2].result = "returned" /\ calls[3].result = "returned"

(***************************************************************************)
(* Construction of a RunningModel from an EnvironmentSet, and its log      *)
(* reader: EnvironmentSet.add, get_combined_name, RunningModel.__init__    *)
(* (which seeds the log and starts the child) and _collect_logs.           *)
(***************************************************************************)
MaxEnvironments == 2     \* environments added to the set
MaxLines == 104          \* lines read from the child

\* The environments of the configuration.
Environments ==
  { Environment("bare", << >>),
    Environment("gpu0", << << "CUDA_VISIBLE_DEVICES", << "0" >> >> >>),
    Environment("gpu1", << << "CUDA_VISIBLE_DEVICES", << "1" >> >>,
                           << "OMP_NUM_THREADS", << "8" >> >> >>),
    Environment("fast", << << "CUDA_DEVICE_ORDER", << "FASTEST_FIRST" >> >>,
                           << "HOME", << "/srv" >> >> >>) }

\* The overrides a runtime driver passes as extra_environment.
ExtraEnvironments ==
  { << >>,
    [ key \in {"CUDA_DEVICE_ORDER"} |-> << "FASTEST_FIRST" >> ],
    [ key \in {"CUDA_VISIBLE_DEVICES", "HOME"} |->
        IF key = "HOME" THEN << "/tmp" >> ELSE << "3" >> ] }

\* EnvironmentSet.add, lines 56-62.
add(environment) ==
  /\ rm = << >>
  /\ Len(environment_set) < MaxEnvironments
  /\ environment_set' = Append(environment_set, environment)
  /\ UNCHANGED << registryVars, proxyVars, supervisorVars, statusVars, logVars, shutdownVars,
                  launchVars, dashboardVars, extra_environment, environ, child_env, env_name >>

\* A call of get_combined_name (RunningModel.__str__, line 292).
CombinedName ==
  /\ env_name' = << get_combined_name(environment_set) >>
  /\ UNCHANGED << registryVars, proxyVars, supervisorVars, statusVars, logVars, shutdownVars,
                  launchVars, dashboardVars, environment_set, extra_environment, environ, child_env >>

\* RunningModel.__init__, lines 155-172: _seed_logs, then _start_process.
RunningModelInit ==
  /\ rm = << >>
  /\ rm' = << RunningModel(1, "openai", 50001, 101) >>
  /\ os' = [ i \in {1} |-> "live" ]
  /\ log_buffer' = [ i \in {1} |-> seed_logs(environment_set) ]
  /\ lines_read' = [ i \in {1} |-> 0 ]
  /\ child_env' = [ i \in {1} |-> ChildEnvironment(environ, environment_set, extra_environment) ]
  /\ UNCHANGED << catalog, running_models, peers, peer_models, proxyVars, signals, calls, stopper,
                  statusVars, shutdownVars, launchVars, dashboardVars, environment_set,
                  extra_environment, environ, env_name >>

\* _collect_logs, lines 216-219: one more line of the child's output.
CollectLogs(i) ==
  /\ rm[i].running /\ rm[i].process /\ os[i] = "live"
  /\ lines_read[i] < MaxLines
  /\ lines_read' = [ lines_read EXCEPT ![i] = @ + 1 ]
  /\ log_buffer' = [ log_buffer EXCEPT ![i] = RingAppend(@, ChildLine(lines_read[i] + 1)) ]
  /\ UNCHANGED << registryVars, proxyVars, supervisorVars, statusVars, environmentVars, shutdownVars,
                  launchVars, dashboardVars >>

NextEnvironment ==
  \/ \E environment \in Environments : add(environment)
  \/ CombinedName
  \/ RunningModelInit
  \/ \E i \in DOMAIN rm : CollectLogs(i)

\* An empty EnvironmentSet and no RunningModel yet.
InitConstruction ==
  /\ catalog = << Model("zoo", "/models/foo.gguf", "gguf", "foo") >>
  /\ rm = << >>
  /\ running_models = << >>
  /\ peers = << >>
  /\ peer_models = << >>
  /\ active_connections = << >>
  /\ req = << >>
  /\ menu = {}
  /\ InitSupervisor
  /\ InitStatus
  /\ InitServing
  /\ InitHistory
  /\ InitDashboard
  /\ environment_set = << >>
  /\ extra_environment \in ExtraEnvironments
  /\ environ \in HostEnvironments
  /\ child_env = << >>
  /\ env_name = << >>
  /\ log_buffer = << >>
  /\ lines_read = << >>

SpecEnvironment == InitConstruction /\ [][NextEnvironment]_vars

(***************************************************************************)
(* Properties of the construction (specification SpecEnvironment).         *)
(***************************************************************************)
\* Everything appended to the ring of RunningModel i so far, in order.
Appended(i) ==
  SeedLines(environment_set) \o [ n \in 1 .. lines_read[i] |-> ChildLine(n) ]

\* C12: logs() returns at most 100 lines, and exactly the last
\* min(N + seed_lines, 100) of the seed banner followed by the N lines read
\* from the child, in read order.
C12_LogRing ==
  \A i \in DOMAIN log_buffer :
    LET total == Len(Appended(i))
        kept  == IF total < 100 THEN total ELSE 100
    IN  /\ Len(logs(i)) <= 100
        /\ logs(i) = SubSeq(Appended(i), total - kept + 1, total)

\* A ring whose banner had a line per variable and has been evicted entirely.
C12_Witness ==
  \E i \in DOMAIN log_buffer :
    /\ Len(SeedLines(environment_set)) > 3
    /\ lines_read[i] > 100
    /\ Len(logs(i)) = 100
    /\ logs(i)[1] = ChildLine(lines_read[i] - 99)

\* The values the environments of the list give to key, in list order.
RECURSIVE ValuesOf(_, _)
ValuesOf(environments, key) ==
  IF environments = << >> THEN << >>
  ELSE (IF key \in Keys(Head(environments).vars)
          THEN << Item(Head(environments).vars, key) >> ELSE << >>)
       \o ValuesOf(Tail(environments), key)

DefinedKeys(environments) ==
  UNION { Keys(environments[n].vars) : n \in 1 .. Len(environments) }

CombinedVarsAreJoins ==
  LET combined_vars == get_combined_vars(environment_set)
  IN  /\ Keys(combined_vars) = DefinedKeys(environment_set)
      /\ Len(combined_vars) = Cardinality(Keys(combined_vars))
      /\ \A n \in 1 .. Len(combined_vars) :
           combined_vars[n][2] = Join(",", ValuesOf(environment_set, combined_vars[n][1]))
      /\ Len(environment_set) = 2 =>
           LET E1 == environment_set[1].vars
               E2 == environment_set[2].vars
           IN  \A key \in Keys(combined_vars) :
                 Item(combined_vars, key) =
                   IF key \notin Keys(E2) THEN Item(E1, key)
                   ELSE IF key \notin Keys(E1) THEN Item(E2, key)
                   ELSE Item(E1, key) \o << "," >> \o Item(E2, key)
      \* the banner of a RunningModel constructed from the set shows them
      /\ \A i \in DOMAIN log_buffer :
           lines_read[i] = 0 =>
             \A n \in 1 .. Len(combined_vars) :
               log_buffer[i][2 + n] =
                 << " ", combined_vars[n][1], "=" >>
                   \o Join(",", ValuesOf(environment_set, combined_vars[n][1]))

CombinedNameIsJoin ==
  env_name' # env_name =>
    env_name'[1] = IF environment_set = << >> THEN << "empty" >>
                   ELSE Join("+", [ n \in 1 .. Len(environment_set) |-> environment_set[n].name ])

\* C13: get_combined_vars maps each key to the comma-join, in list order, of
\* the values of exactly the environments that define it; get_combined_name is
\* the '+'-join of the names, or "empty" for an empty set.
C13_Composition == []CombinedVarsAreJoins /\ [][CombinedNameIsJoin]_vars

\* A RunningModel built from [gpu0, gpu1], whose banner shows
\* CUDA_VISIBLE_DEVICES=0,1, and the set's name gpu0+gpu1.
C13_Witness ==
  /\ Len(environment_set) = 2
  /\ environment_set[1].name = << "gpu0" >> /\ environment_set[2].name = << "gpu1" >>
  /\ env_name = << << "gpu0", "+", "gpu1" >> >>
  /\ rm # << >> /\ lines_read[1] = 0
  /\ log_buffer[1][3] = << " ", "CUDA_VISIBLE_DEVICES", "=", "0", ",", "1" >>

\* C14: the child's environment is the host's, overridden by the combined
\* vars, then by the extra overrides, then by CUDA_DEVICE_ORDER=PCI_BUS_ID,
\* the later layer replacing (not joining) the earlier value.
C14_ChildEnvironment ==
  \A i \in DOMAIN child_env :
    /\ DOMAIN child_env[i] =
         DOMAIN environ \cup DefinedKeys(environment_set) \cup DOMAIN extra_environment
           \cup {"CUDA_DEVICE_ORDER"}
    /\ child_env[i]["CUDA_DEVICE_ORDER"] = << "PCI_BUS_ID" >>
    /\ \A key \in DOMAIN child_env[i] \ {"CUDA_DEVICE_ORDER"} :
         child_env[i][key] =
           IF key \in DOMAIN extra_environment THEN extra_environment[key]
           ELSE IF key \in DefinedKeys(environment_set)
             THEN Join(",", ValuesOf(environment_set, key))
           ELSE environ[key]

\* A child started while the host, an environment of the set and the extra
\* overrides all set CUDA_DEVICE_ORDER, and the set overrides the host's HOME.
C14_Witness ==
  /\ rm # << >>
  /\ "CUDA_DEVICE_ORDER" \in DOMAIN environ
  /\ "CUDA_DEVICE_ORDER" \in DefinedKeys(environment_set)
  /\ "CUDA_DEVICE_ORDER" \in DOMAIN extra_environment
  /\ child_env[1]["CUDA_DEVICE_ORDER"] = << "PCI_BUS_ID" >>
  /\ child_env[1]["HOME"] = << "/srv" >>

(***************************************************************************)
(* zk.py and runtime.py: POST /api/model/launch.  handle_launch_model runs *)
(* without a blocking call between its first line and its return, so it is *)
(* one step; exception_handler turns whatever it raises into a 500.        *)
(***************************************************************************)
MaxLaunches == 2         \* launch requests sent to the node

\* runtime.py: the drivers of the configuration, by runtime_name (the class
\* name when the configuration gives no name), with their runtime_formats.
Runtimes ==
  [ name \in { "LlamaRuntime", "VLLMRuntime", "LlamaSrbRuntime", "LiteLLMRuntime",
               "KoboldCppRuntime", "SDServerRuntime", "TabbyRuntime" } |->
      [ runtime_formats |->
          CASE name = "LlamaRuntime" -> << "gguf" >>
            [] name = "VLLMRuntime" -> << "gguf", "fp16", "awq", "gptq" >>
            [] name = "LlamaSrbRuntime" -> << "gguf" >>
            [] name = "LiteLLMRuntime" -> << "litellm" >>
            [] name = "KoboldCppRuntime" -> << "gguf", "kcppt" >>
            [] name = "SDServerRuntime" -> << "kcppt" >>
            [] name = "TabbyRuntime" -> << "gptq", "exl2" >> ] ]

\* Mutant of Supported: the driver takes any format.
SupportsAnyFormat(runtime_formats, model_format) == TRUE

\* `model.model_format in self.runtime_formats`, the first statement of every
\* driver's spawn.
Supported(runtime_formats, model_format) ==
  \E k \in 1 .. Len(runtime_formats) : runtime_formats[k] = model_format

\* The protocol spawn writes into the listener before it constructs the
\* RunningModel; sdmodel tells whether a kcppt checkpoint names an SD model.
SpawnProtocol(runtime_name, model_format, sdmodel) ==
  IF runtime_name = "SDServerRuntime" THEN "sd-server"
  ELSE IF runtime_name = "KoboldCppRuntime" /\ model_format = "kcppt" /\ sdmodel THEN "a1111"
  ELSE "openai"

\* zk.py: self.zoos and self.environments, by name.
Zoos == { "zoo" }

EnvironmentNames == { environment.name[1] : environment \in Environments }

EnvironmentNamed(env_name_) == CHOOSE environment \in Environments : environment.name = << env_name_ >>

\* next((m for m in zoo.catalog() if m.model_id == model_id), None): the
\* object id of the first such model, 0 for None.
FindModel(zoo_name, model_id) ==
  LET found == { m \in DOMAIN catalog :
                   catalog[m].zoo_name = zoo_name /\ catalog[m].model_id = model_id }
  IN  IF found = {} THEN 0 ELSE CHOOSE m \in found : \A other \in found : m <= other

\* The first name of env_names that self.environments does not hold, 0 when it
\* holds them all.
FirstMissing(env_names) ==
  LET missing == { n \in 1 .. Len(env_names) : env_names[n] \notin EnvironmentNames }
  IN  IF missing = {} THEN 0 ELSE CHOOSE n \in missing : \A other \in missing : n <= other

\* jsonify({'success': ..., 'error': ...}), status
LaunchResponse(status, success, error) ==
  [ status |-> status, success |-> success, error |-> error ]

\* ModelLaunchInfo(zoo_name, model_name)
ModelLaunchInfo(zoo_name, model_name) ==
  [ zoo_name |-> zoo_name, model_name |-> model_name, launch_count |-> 0,
    last_runtime |-> None, last_environment |-> << >> ]

\* ModelHistory.update_model_launch, lines 77-89; the key is f"{zoo_name}:{model_name}".
update_model_launch(history, zoo_name, model_name, runtime, environment) ==
  LET key == << zoo_name, model_name >>
      info == IF key \in DOMAIN history THEN history[key]
              ELSE ModelLaunchInfo(zoo_name, model_name)
  IN  Put(history, key, [ info EXCEPT !.launch_count = @ + 1, !.last_runtime = runtime,
                                      !.last_environment = environment ])

LaunchCall(data, response, model, spawned) ==
  [ request |-> data, response |-> response, model |-> model, spawned |-> spawned ]

\* The requests a client sends to /api/model/launch.
LaunchRequests ==
  [ zoo_name : { "zoo", "nozoo" },
    model_id : { "/models/foo.gguf", "/models/sd.kcppt", "/models/tab", "/models/ghost" },
    custom_name : { None, "mine" },
    runtime : DOMAIN Runtimes \cup { "NoRuntime" },
    environment : { << "gpu0" >>, << "gpu1", "missing" >> },
    port : { 50001 } ]

\* handle_launch_model, lines 216-265.  `outcome` is what the driver's spawn
\* does once it has accepted the format: it returns a RunningModel, or raises
\* (a checkpoint it cannot open, a Popen that fails).
handle_launch_model(data, sdmodel, outcome) ==
  LET model == FindModel(data.zoo_name, data.model_id)
      missing == FirstMissing(data.environment)
      environments == [ n \in 1 .. Len(data.environment) |-> EnvironmentNamed(data.environment[n]) ]
      renamed == IF Truthy(data.custom_name)
                 THEN [ catalog EXCEPT ![model].model_name = data.custom_name ]
                 ELSE catalog
      model_format == catalog[model].model_format
      i == Len(rm) + 1
      refuse(response) ==
        /\ launch' = Append(launch, LaunchCall(data, response, model, FALSE))
        /\ UNCHANGED << rm, running_models, os, child_env, logVars, model_history >>
  IN  /\ Len(launch) < MaxLaunches
      /\ IF data.zoo_name \notin Zoos
           THEN /\ refuse(LaunchResponse(404, FALSE, << "Zoo not found" >>))
                /\ UNCHANGED catalog
         ELSE IF model = 0
           THEN /\ refuse(LaunchResponse(404, FALSE, << "Model not found" >>))
                /\ UNCHANGED catalog
         ELSE IF data.runtime \notin DOMAIN Runtimes
           THEN /\ refuse(LaunchResponse(400, FALSE, << "Invalid runtime" >>))
                /\ UNCHANGED catalog
         ELSE IF missing # 0
           THEN /\ refuse(LaunchResponse(400, FALSE,
                            << "Environment ", data.environment[missing], " not found" >>))
                /\ UNCHANGED catalog
         ELSE /\ catalog' = renamed
              /\ IF ~ Supported(Runtimes[data.runtime].runtime_formats, model_format)
                   THEN refuse(LaunchResponse(500, FALSE,
                                 << "Unsupported model format: ", model_format >>))
                 ELSE IF outcome # "started"
                   THEN refuse(LaunchResponse(500, FALSE, << outcome >>))
                 ELSE /\ rm' = Append(rm, RunningModel(model,
                                 SpawnProtocol(data.runtime, model_format, sdmodel),
                                 data.port, 100 + i))
                      /\ os' = Put(os, i, "live")
                      /\ child_env' = Put(child_env, i,
                                          ChildEnvironment(environ, environments, << >>))
                      /\ log_buffer' = Put(log_buffer, i, seed_logs(environments))
                      /\ lines_read' = Put(lines_read, i, 0)
                      /\ running_models' = Append(running_models, i)
                      /\ model_history' = update_model_launch(model_history,
                                            renamed[model].zoo_name, renamed[model].model_name,
                                            data.runtime, data.environment)
                      /\ launch' = Append(launch,
                                          LaunchCall(data, LaunchResponse(200, TRUE, << >>),
                                                     model, TRUE))
      /\ UNCHANGED << peers, peer_models, proxyVars, signals, calls, stopper, statusVars,
                      environmentSetVars, shutdownVars, dashboardVars >>

NextLaunch ==
  \/ \E data \in LaunchRequests, sdmodel \in BOOLEAN, outcome \in { "started", "OSError" } :
       handle_launch_model(data, sdmodel, outcome)
  \/ \E i \in DOMAIN rm : ChildExit(i)

\* A node with one zoo of three models, nothing launched yet.
InitLaunch ==
  /\ catalog = << Model("zoo", "/models/foo.gguf", "gguf", "foo"),
                  Model("zoo", "/models/sd.kcppt", "kcppt", "sd"),
                  Model("zoo", "/models/tab", "exl2", "tab") >>
  /\ rm = << >>
  /\ running_models = << >>
  /\ peers = << >>
  /\ peer_models = << >>
  /\ active_connections = << >>
  /\ req = << >>
  /\ menu = {}
  /\ InitSupervisor
  /\ InitControl

SpecLaunch == InitLaunch /\ [][NextLaunch]_vars

(***************************************************************************)
(* Properties of the launch (specification SpecLaunch).                    *)
(***************************************************************************)
\* The launch call reached the driver's spawn with a model whose format
\* is none of the driver's runtime_formats.
UnsupportedLaunch(call) ==
  /\ call.request.zoo_name \in Zoos
  /\ call.model # 0
  /\ call.request.runtime \in DOMAIN Runtimes
  /\ \A n \in 1 .. Len(call.request.environment) :
       call.request.environment[n] \in EnvironmentNames
  /\ \A k \in 1 .. Len(Runtimes[call.request.runtime].runtime_formats) :
       Runtimes[call.request.runtime].runtime_formats[k] # catalog[call.model].model_format

\* C20: a launch whose model's format is not among the formats of the
\* requested driver is refused by spawn before anything else: no child process
\* is started and no RunningModel is made, the running-models list and the
\* launch history stay as they were, and the request is answered with the
\* error "Unsupported model format".
C20_UnsupportedFormat ==
  [][ Len(launch') = Len(launch) + 1 =>
        LET call == launch'[Len(launch')]
        IN  UnsupportedLaunch(call) =>
              /\ ~ call.spawned
              /\ call.response.status = 500
              /\ call.response.error =
                   << "Unsupported model format: ", catalog[call.model].model_format >>
              /\ rm' = rm
              /\ os' = os
              /\ child_env' = child_env
              /\ running_models' = running_models
              /\ model_history' = model_history ]_vars

\* A launch was refused for its format while a model launched before it runs
\* and is in the history.
C20_Witness ==
  /\ Len(launch) = 2
  /\ launch[1].spawned
  /\ UnsupportedLaunch(launch[2])
  /\ launch[2].request.custom_name = "mine"
  /\ launch[2].response.status = 500
  /\ Len(running_models) = 1
  /\ DOMAIN model_history # {}

(***************************************************************************)
(* zk.py: handle_stop_model (lines 267-275), POST /api/model/stop.  The    *)
(* handler blocks inside stop() (the wait of base.py line 270, the join of *)
(* line 281); other requests are served meanwhile.  Nothing blocks between *)
(* the return of stop() and the pop of line 273.                           *)
(***************************************************************************)
\* list.pop(model_idx) on a list that holds the index.
RemoveAt(list, model_idx) ==
  SubSeq(list, 1, model_idx) \o SubSeq(list, model_idx + 2, Len(list))

\* What follows the stop() call k of a handler that was given model_idx and
\* called stop() on RunningModel i: once stop() has returned, line 273 pops
\* whatever the list holds at model_idx now (IndexError when it holds
\* nothing there: `removed` is 0); an exception of stop() leaves the handler
\* before the pop; a stop() that blocks leaves the handler pending.
AfterStopCall(c, model_idx, i, k) ==
  LET others == [ d \in DOMAIN stop_model.pending \ {c} |-> stop_model.pending[d] ]
  IN  IF calls'[k].result = "returned"
        THEN IF model_idx < Len(running_models)
               THEN /\ running_models' = RemoveAt(running_models, model_idx)
                    /\ stop_model' =
                         [ pending |-> others,
                           pops |-> Append(stop_model.pops,
                                      [ model_idx |-> model_idx, stopped |-> i,
                                        removed |-> running_models[model_idx + 1] ]) ]
               ELSE /\ UNCHANGED running_models
                    /\ stop_model' =
                         [ pending |-> others,
                           pops |-> Append(stop_model.pops,
                                      [ model_idx |-> model_idx, stopped |-> i, removed |-> 0 ]) ]
      ELSE IF calls'[k].result = "raised"
        THEN /\ UNCHANGED running_models
             /\ stop_model' = [ stop_model EXCEPT !.pending = others ]
      ELSE /\ UNCHANGED running_models
           /\ stop_model' = [ stop_model EXCEPT !.pending =
                                Put(others, c, [ model_idx |-> model_idx, rm |-> i ]) ]

\* lines 268-272, for an index the list holds (any other is answered 404 and
\* changes nothing): stop() is entered on the RunningModel at that index.
handle_stop_model(c, model_idx) ==
  /\ c \notin DOMAIN stop_model.pending
  /\ 0 <= model_idx /\ model_idx < Len(running_models)
  /\ StopEnters(c, running_models[model_idx + 1], FALSE)
  /\ AfterStopCall(c, model_idx, running_models[model_idx + 1], Len(calls) + 1)
  /\ UNCHANGED << catalog, peers, peer_models, proxyVars, os, statusVars, environmentVars,
                  logVars, shutdownVars, launchVars, registry_call >>

\* The handler's stop() leaves the wait of line 270.
StopModelWaitEnds(c) ==
  /\ c \in DOMAIN stop_model.pending
  /\ StopWaits(c)
  /\ AfterStopCall(c, stop_model.pending[c].model_idx, stop_model.pending[c].rm, stopper[c].call)
  /\ UNCHANGED << catalog, peers, peer_models, proxyVars, statusVars, environmentVars,
                  logVars, shutdownVars, launchVars, registry_call >>

\* The handler's stop() leaves the join of line 281.
StopModelJoinEnds(c) ==
  /\ c \in DOMAIN stop_model.pending
  /\ StopJoins(c)
  /\ AfterStopCall(c, stop_model.pending[c].model_idx, stop_model.pending[c].rm, stopper[c].call)
  /\ UNCHANGED << catalog, peers, peer_models, proxyVars, statusVars, environmentVars,
                  logVars, shutdownVars, launchVars, registry_call >>

NextStopModel ==
  \/ \E c \in DOMAIN stopper, model_idx \in 0 .. 2 : handle_stop_model(c, model_idx)
  \/ \E c \in DOMAIN stopper : StopModelWaitEnds(c)
  \/ \E c \in DOMAIN stopper : StopModelJoinEnds(c)
  \/ \E i \in DOMAIN rm : ChildExit(i)
  \/ \E i \in DOMAIN rm : GroupGone(i)

\* Three running models, and the dashboard requests that stop them.
InitStopModel ==
  /\ catalog = << Model("zoo", "/models/foo.gguf", "gguf", "foo"),
                  Model("zoo", "/models/sd.kcppt", "kcppt", "sd") >>
  /\ rm = << RunningModel(1, "openai", 50001, 101),
             RunningModel(1, "openai", 50002, 102),
             RunningModel(2, "sd-server", 50003, 103) >>
  /\ running_models = << 1, 2, 3 >>
  /\ peers = << >>
  /\ peer_models = << >>
  /\ active_connections = << >>
  /\ req = << >>
  /\ menu = {}
  /\ os = [ i \in DOMAIN rm |-> "live" ]
  /\ signals = << >>
  /\ calls = << >>
  /\ stopper = [ c \in 1 .. NumCallers |-> IdleStopper ]
  /\ InitControl

SpecStopModel == InitStopModel /\ [][NextStopModel]_vars

(***************************************************************************)
(* Properties of the dashboard stop (specification SpecStopModel).         *)
(***************************************************************************)
\* stop() has returned for RunningModel i.
Stopped(i) == \E k \in 1 .. Len(calls) : calls[k].rm = i /\ calls[k].result = "returned"

\* C26 (as claimed): every pop of a dashboard stop removes the RunningModel
\* the request stopped, so no RunningModel leaves the list without having been
\* stopped, and once no stop request is in progress no stopped RunningModel is
\* in the list.
C26_StopRemovesStopped ==
  /\ \A n \in 1 .. Len(stop_model.pops) :
       stop_model.pops[n].removed = stop_model.pops[n].stopped
  /\ \A i \in DOMAIN rm :
       (\A k \in 1 .. Len(running_models) : running_models[k] # i) => Stopped(i)
  /\ stop_model.pending = << >> =>
       \A k \in 1 .. Len(running_models) : ~ Stopped(running_models[k])

(***************************************************************************)
(* Properties of the launch with an alias (specification SpecLaunch).      *)
(***************************************************************************)
\* C27 (as claimed): a launch request changes the model_name the registry
\* reports for no RunningModel that is already in the running list, and a
\* launch that does not start a model leaves every model_name of the catalog
\* as it was.
C27_AliasFrame ==
  [][ Len(launch') = Len(launch) + 1 =>
        /\ \A k \in 1 .. Len(running_models) :
             LocalEntry(running_models[k])'.model_name = LocalEntry(running_models[k]).model_name
        /\ ~ launch'[Len(launch')].spawned =>
             \A m \in DOMAIN catalog : catalog'[m].model_name = catalog[m].model_name
    ]_vars

(***************************************************************************)
(* The life of a RunningModel (specification SpecRunningModel).            *)
(***************************************************************************)
\* C24: a RunningModel never goes back: no step makes a new RunningModel of
\* an old one, gives a process (or a process group id) to an object that has
\* given its own up, or makes a child that has exited run again; and a
\* status() called after a stop() has returned, or after the child has
\* exited, reports running = false.
C24_NoRestart ==
  [][ /\ DOMAIN rm' = DOMAIN rm
      /\ \A i \in DOMAIN rm :
           /\ os[i] # "live" => os'[i] # "live"
           /\ ~ rm[i].process => ~ rm'[i].process
           /\ rm[i].pgid = << >> => rm'[i].pgid = << >>
           /\ (\E j \in 1 .. Len(calls) : calls[j].rm = i /\ calls[j].result = "returned")
                => ~ rm'[i].process
      /\ last_status' # << >> =>
           ((last_status'[1].after_stop \/ ~ last_status'[1].live) => ~ last_status'[1].running)
    ]_vars

\* status() was called on a RunningModel whose child had exited on its own (no
\* stop() was ever called on it) and answered running = false.
C24_Witness ==
  /\ last_status # << >>
  /\ last_status[1].held /\ ~ last_status[1].live /\ ~ last_status[1].after_stop
  /\ ~ last_status[1].running
  /\ calls = << >>

(***************************************************************************)
(* Properties of RunningModel.status (specification SpecRunningModel).     *)
(***************************************************************************)
\* C11 (as claimed): status() reports running = true if and only if the child
\* is live when it is called.
C11_RunningIffLive ==
  last_status # << >> => (last_status[1].running <=> last_status[1].live)

\* C11 (amended): status() never reports ready without running; running is
\* true iff the RunningModel still holds its process and the child has not
\* exited, hence false after a stop() has returned and after the child's
\* exit; no probe is issued when running is false; when running is true, ready
\* is true iff the probe got a response whose status is the protocol's
\* health_status, and false on a network error or without a health_check.
C11_Status ==
  last_status # << >> =>
    LET st == last_status[1]
        protocol == rm[st.rm].listener.protocol
    IN  /\ st.ready => st.running
        /\ st.running <=> (st.held /\ st.live)
        /\ st.after_stop => ~ st.running
        /\ ~ st.running => ~ st.probed
        /\ st.probed <=> (st.running /\ protocol \in DOMAIN PROTOCOLS)
        /\ st.ready <=> /\ st.probed
                        /\ st.outcome.kind = "response"
                        /\ st.outcome.status_code = PROTOCOLS[protocol].health_status

\* status() has answered running and ready for an sd-server whose health
\* probe was answered 404.
C11_Witness ==
  /\ last_status # << >>
  /\ rm[last_status[1].rm].listener.protocol = "sd-server"
  /\ last_status[1].running /\ last_status[1].ready /\ last_status[1].probed
  /\ last_status[1].outcome.status_code = 404


(***************************************************************************)
(* The life of the running list (specification SpecLifecycle): launches,   *)
(* dashboard stops, the shutdown, the children, and status() as the        *)
(* registry calls it on each RunningModel of the list.  The shutdown loop  *)
(* does not block, so no request is served from the signal on until        *)
(* http_server.stop(), where the stops that are waiting may still return.  *)
(***************************************************************************)
\* The launches of the dashboard: "foo" or a model the zoo does not have.
LifecycleLaunches ==
  { data \in LaunchRequests :
      /\ data.zoo_name = "zoo"
      /\ data.model_id \in { "/models/foo.gguf", "/models/ghost" }
      /\ data.custom_name = None
      /\ data.runtime = "LlamaRuntime"
      /\ data.environment = << "gpu0" >> }

NextLifecycle ==
  \/ \E data \in LifecycleLaunches, outcome \in { "started", "OSError" } :
       handler.pc = "idle" /\ handle_launch_model(data, FALSE, outcome)
  \/ \E c \in DOMAIN stopper \ { 1 }, model_idx \in 0 .. 1 :
       handler.pc = "idle" /\ handle_stop_model(c, model_idx)
  \/ \E c \in DOMAIN stopper : StopModelWaitEnds(c)
  \/ \E c \in DOMAIN stopper : StopModelJoinEnds(c)
  \/ signal_handler
  \/ ShutdownStop
  \/ ShutdownClear
  \/ HttpServerStop
  \/ \E i \in DOMAIN rm : ChildExit(i)
  \/ \E i \in DOMAIN rm : GroupGone(i)
  \/ \E k \in 1 .. Len(running_models) : handler.pc = "idle" /\ StatusBegin(running_models[k])
  \/ StatusProbeEnds

\* A node with one zoo, nothing launched yet.
InitLifecycle ==
  /\ catalog = << Model("zoo", "/models/foo.gguf", "gguf", "foo") >>
  /\ rm = << >>
  /\ running_models = << >>
  /\ peers = << >>
  /\ peer_models = << >>
  /\ active_connections = << >>
  /\ req = << >>
  /\ menu = {}
  /\ os = << >>
  /\ signals = << >>
  /\ calls = << >>
  /\ stopper = [ c \in 1 .. NumCallers |-> IdleStopper ]
  /\ InitControl

SpecLifecycle == InitLifecycle /\ [][NextLifecycle]_vars

(***************************************************************************)
(* Properties of the running list (specification SpecLifecycle).           *)
(***************************************************************************)
\* The running list holds RunningModel i.
Listed(list, i) == \E k \in 1 .. Len(list) : list[k] = i

\* RunningModel i, whose child has exited, is still served: the registry has
\* its entry, GET /health is answered 200, and the entry is a candidate for
\* its model name on the completions endpoint.
StillServed(i) ==
  LET available_models == get_available_models(TRUE, TRUE, {})
  IN  /\ \E k \in 1 .. Len(available_models) :
           /\ available_models[k].source = << "local" >>
           /\ available_models[k].model_id = catalog[rm[i].model].model_id
           /\ available_models[k].listener.port = rm[i].listener.port
           /\ IsCandidate(available_models[k], catalog[rm[i].model].model_name, "completions")
      /\ HealthResponse(get_available_models(TRUE, FALSE, {})).status = 200

\* C30: a RunningModel enters the running list only in a launch that is
\* answered 200, and leaves it only in the pop of a dashboard stop or in the
\* clear of the shutdown; the exit of a child changes nothing in the list, so
\* a listed RunningModel whose child has exited gets running=false and
\* ready=false from status(), keeps /health at 200 and stays a candidate for
\* its model name.
C30_RunningList ==
  /\ [][ /\ \A i \in DOMAIN rm' :
             Listed(running_models', i) /\ ~ Listed(running_models, i) =>
               /\ Len(launch') = Len(launch) + 1
               /\ launch'[Len(launch')].spawned
               /\ launch'[Len(launch')].response.status = 200
               /\ i \notin DOMAIN rm
         /\ \A i \in DOMAIN rm :
             Listed(running_models, i) /\ ~ Listed(running_models', i) =>
               \/ /\ Len(stop_model'.pops) = Len(stop_model.pops) + 1
                  /\ stop_model'.pops[Len(stop_model'.pops)].removed = i
               \/ handler.pc = "stopping" /\ handler'.pc = "http_stop"
         /\ \A i \in DOMAIN rm :
             os[i] = "live" /\ os'[i] # "live" => running_models' = running_models ]_vars
  /\ [](\A i \in DOMAIN rm :
          Listed(running_models, i) /\ os[i] # "live" =>
            /\ StillServed(i)
            /\ \A n \in 1 .. Len(last_status) :
                 last_status[n].rm = i /\ ~ last_status[n].live =>
                   ~ last_status[n].running /\ ~ last_status[n].ready)

\* The child of a launched RunningModel has exited on its own (no signal was
\* ever sent), status() has been called on it since, and it is still in the
\* running list, after another RunningModel was launched behind it.
C30_Witness ==
  /\ Len(running_models) = 2
  /\ signals = << >>
  /\ os[running_models[1]] = "exited"
  /\ os[running_models[2]] = "live"
  /\ last_status # << >>
  /\ last_status[1].rm = running_models[1]
  /\ ~ last_status[1].running
  /\ StillServed(running_models[1])

=============================================================================
